---- MODULE Spec2Model ----
(***************************************************************************)
(* Host service of the Automation 2040 W bridge                            *)
(* (host/service/automation_service.py) on top of the host serial library  *)
(* (host/automation2040w.py), talking to the USB firmware                  *)
(* (firmware-python/main.py).                                              *)
(*                                                                         *)
(* Three threads call into the board object: the board worker (poll loop), *)
(* the MQTT network loop (message callback) and a Flask request thread.    *)
(* The serial transport is a pair of byte queues, modelled line by line.   *)
(*                                                                         *)
(* Spec     : worker and HTTP handler, the board comes and goes            *)
(* SpecMqtt : worker and MQTT callback, the broker comes and goes          *)
(* LiveSpec : worker alone with its board, under weak fairness             *)
(***************************************************************************)
EXTENDS Integers, Sequences, FiniteSets, TLC

\* ---------------------------------------------------------------- bounds
MaxObjs == 2        \* Automation2040W objects constructed in one run
MaxRx == 16         \* lines the port's input buffer holds unread

\* ------------------------------------------------------- program constants
NUM_RELAYS == 3
NUM_OUTPUTS == 3
NUM_INPUTS == 4
NUM_ADCS == 3
VERSION == "1.0.0"

Worker == "worker"
Handlers == {"mqtt", "http"}
Threads == {Worker} \cup Handlers


VARIABLES
    running,          \* AutomationService.running
    board,            \* AutomationService.board: 0 is None, else an object id
    board_connected,  \* AutomationService.board_connected
    mqtt_connected,   \* AutomationService.mqtt_connected
    mqtt_loops,       \* MQTT clients whose network loop was started
    broker_up,        \* the MQTT broker accepts connections
    last_status,      \* AutomationService.last_status
    error_count,      \* AutomationService.error_count
    pub,              \* last payload published on <prefix>/status
    nobj,             \* number of Automation2040W objects constructed
    serial,           \* serial[o]: the field Automation2040W.serial of object o
    wire_in,          \* lines written by the host, not yet read by the device
    wire_out,         \* lines printed by the device, not yet read by the host
    dev_relays,       \* relay states on the device
    board_mode,       \* "absent": no port; "mute": port opens, no replies; "ok"
    pc,               \* position of each thread
    obj,              \* the board object a thread is calling into
    cmd,              \* the command a thread is sending
    lines,            \* the list `lines` of a running _send_command
    resp,             \* what the thread's _send_command returned or raised
    dev_outputs,      \* output duty on the device, in hundredths of full scale
    reply,            \* the HTTP response the Flask handler returns
    msg,              \* the MQTT message on_mqtt_message is handling
    test_msg,         \* payload functions: the message given to both programs
    host_out,         \* what the host service makes of test_msg
    wifi_out,         \* what the WiFi firmware makes of test_msg
    w_pc,             \* WiFi firmware: position of AutomationController.run
    w_mqtt_connected, \* WiFi firmware: AutomationController.mqtt_connected
    relay_states,     \* WiFi firmware: AutomationController.relay_states
    output_values,    \* WiFi firmware: output_values, in thousandths
    w_inbox,          \* MQTT messages the broker holds for the WiFi firmware
    request,          \* WiFi firmware: the HTTP request waiting on the socket
    response,         \* WiFi firmware: the HTTP response sent last
    w_pub,            \* WiFi firmware: last payload published on <prefix>/status
    pins,             \* WiFi firmware: the levels at the digital inputs
    last_inputs,      \* WiFi firmware: AutomationController.last_inputs
    w_in_pub,         \* WiFi firmware: what the last check_input_changes published
    board_relays,     \* WiFi firmware: the relays as board.relay() left them
    board_outputs,    \* WiFi firmware: the duty board.output() set, thousandths
    rx,               \* library client: lines in the port's input buffer
    lib_last,         \* library client: the last _send_command and its outcome
    lib_prev          \* library client: the _send_command before that

vars == <<running, board, board_connected, mqtt_connected, mqtt_loops,
          broker_up, last_status, error_count, pub, nobj, serial, wire_in, wire_out,
          dev_relays, board_mode, pc, obj, cmd, lines, resp, dev_outputs,
          reply, msg, test_msg, host_out, wifi_out, w_pc, w_mqtt_connected,
          relay_states, output_values, w_inbox, request, response, w_pub,
          pins, last_inputs, w_in_pub, board_relays, board_outputs, rx,
          lib_last, lib_prev>>

svc_vars == <<running, board, board_connected, mqtt_connected, mqtt_loops,
              last_status, error_count, pub, nobj, serial>>
dev_vars == <<dev_relays, dev_outputs, board_mode, broker_up>>
\* what a request handler was given and what it answers
io_vars == <<reply, msg>>
\* the variables of the other programs of the repository
parse_vars == <<test_msg, host_out, wifi_out>>
\* the WiFi firmware's digital inputs
input_vars == <<pins, last_inputs, w_in_pub>>
\* the WiFi firmware's relays and outputs
board_vars == <<board_relays, board_outputs>>
wifi_vars == <<w_pc, w_mqtt_connected, relay_states, output_values, w_inbox,
               request, response, w_pub, input_vars, board_vars>>
\* a single-threaded client of the library on the port
link_vars == <<rx, lib_last, lib_prev>>
lab_vars == <<parse_vars, link_vars, input_vars, board_vars>>
other_vars == <<parse_vars, wifi_vars, link_vars>>
\* the variables of the host service, its board and its clients
host_vars == <<svc_vars, dev_vars, io_vars, wire_in, wire_out, pc, obj, cmd,
               lines, resp>>

\* ------------------------------------------------------------- commands
NoCmd == [verb |-> "", n |-> 0, arg |-> "", val |-> 0]
PING == [verb |-> "PING", n |-> 0, arg |-> "", val |-> 0]
VERSION_CMD == [verb |-> "VERSION", n |-> 0, arg |-> "", val |-> 0]
STATUS == [verb |-> "STATUS", n |-> 0, arg |-> "", val |-> 0]
RESET == [verb |-> "RESET", n |-> 0, arg |-> "", val |-> 0]
\* Automation2040W.relay(index, state): f"RELAY {index} {'ON' if state else 'OFF'}"
relay_cmd(index, state) ==
    [verb |-> "RELAY", n |-> index, arg |-> IF state THEN "ON" ELSE "OFF",
     val |-> 0]
\* Automation2040W.output(index, value) with an int value:
\* f"OUTPUT {index} {value}", whatever the value
output_cmd(index, value) ==
    [verb |-> "OUTPUT", n |-> index, arg |-> "", val |-> value]

\* ---------------------------------------------------- lines and outcomes
\* A line is its prefix class (tag), the text after the prefix (rest), the
\* JSON value it carries (data) and the thread whose command it answers.
Line(tag, rest, data, from) ==
    [tag |-> tag, rest |-> rest, data |-> data, from |-> from]
NoData == [relays |-> <<>>, outputs |-> <<>>, inputs |-> <<>>, adcs |-> <<>>]
\* last_status: dict = {}
EmptyStatus ==
    [relays |-> <<>>, outputs |-> <<>>, inputs |-> <<>>, adcs |-> <<>>]

NoResp ==
    [type |-> "none", msg |-> "", tag |-> "", rest |-> "", data |-> NoData,
     from |-> ""]
Exc(type, text) ==
    [type |-> type, msg |-> text, tag |-> "", rest |-> "", data |-> NoData,
     from |-> ""]
Ok(line) ==
    [type |-> "ok", msg |-> "", tag |-> line.tag, rest |-> line.rest,
     data |-> line.data, from |-> line.from]

\* an HTTP response: the status code and the JSON body's "status" and
\* "error" members, or the status snapshot it carries
NoReply == [code |-> 0, status |-> "", error |-> "", data |-> NoData]
\* jsonify({"status": "ok", ...}), 200 by default
OkReply == [code |-> 200, status |-> "ok", error |-> "", data |-> NoData]
\* jsonify({"error": text}), code
ErrorReply(code, text) ==
    [code |-> code, status |-> "", error |-> text, data |-> NoData]
\* jsonify(self.last_status)
StatusReply(st) == [code |-> 200, status |-> "", error |-> "", data |-> st]

\* an MQTT message: the topic below the prefix as its first segment and its
\* last segment, and the payload bytes
NoMsg == [base |-> "", last |-> <<>>, payload |-> <<>>]

\* what a program makes of an MQTT message: the exception its handler ends
\* with ("" for none) and the board call it makes (NoCmd for none)
NoOut == [done |-> FALSE, caught |-> "", raised |-> "", call |-> NoCmd]

\* the handler made board call c
Calls(c) == [done |-> TRUE, caught |-> "", raised |-> "", call |-> c]
\* the handler caught exception e, logged it and returned
Caught(e) == [done |-> TRUE, caught |-> e, raised |-> "", call |-> NoCmd]
\* exception e left the handler
Raised(e) == [done |-> TRUE, caught |-> "", raised |-> e, call |-> NoCmd]

\* WiFi firmware: the body of a POST: whether json.loads accepts it, and the
\* members data.get('state', True) and data.get('value', 100) find
Body(valid, state, value) == [valid |-> valid, state |-> state, value |-> value]
\* an HTTP request: the path segment after /api/, the last path segment and
\* the body; a response: the status line's code and the JSON body's
\* "status" and "error" members
NoRequest == [route |-> "", last |-> <<>>, body |-> Body(TRUE, TRUE, 100)]
NoResponse == [code |-> 0, status |-> "", error |-> ""]

\* --------------------------------------------------- text, byte by byte
\* A payload or a topic segment is the sequence of its characters; "0xFF"
\* stands for a byte that is not valid UTF-8.
Whitespace == {" ", "\t", "\n", "\r"}
LowerCase ==
    <<"a", "b", "c", "d", "e", "f", "g", "h", "i", "j", "k", "l", "m",
      "n", "o", "p", "q", "r", "s", "t", "u", "v", "w", "x", "y", "z">>
UpperCase ==
    <<"A", "B", "C", "D", "E", "F", "G", "H", "I", "J", "K", "L", "M",
      "N", "O", "P", "Q", "R", "S", "T", "U", "V", "W", "X", "Y", "Z">>
Digits == <<"0", "1", "2", "3", "4", "5", "6", "7", "8", "9">>

s_ON == <<"O", "N">>
s_OFF == <<"O", "F", "F">>
s_TRUE == <<"T", "R", "U", "E">>
s_FALSE == <<"F", "A", "L", "S", "E">>
s_1 == <<"1">>
s_RESET == <<"R", "E", "S", "E", "T">>
s_STATUS == <<"S", "T", "A", "T", "U", "S">>

s_RELAY == <<"R", "E", "L", "A", "Y">>
s_OUTPUT == <<"O", "U", "T", "P", "U", "T">>
s_INPUT == <<"I", "N", "P", "U", "T">>
s_ADC == <<"A", "D", "C">>
s_LED == <<"L", "E", "D">>
s_BUTTON == <<"B", "U", "T", "T", "O", "N">>
s_VERSION == <<"V", "E", "R", "S", "I", "O", "N">>
s_HELP == <<"H", "E", "L", "P">>
s_PING == <<"P", "I", "N", "G">>
s_PONG == <<"P", "O", "N", "G">>
s_HIGH == <<"H", "I", "G", "H">>
s_LOW == <<"L", "O", "W">>
s_A == <<"A">>
s_B == <<"B">>

\* bytes.decode() raises on a byte that is not UTF-8
Undecodable(b) == \E i \in DOMAIN b : b[i] = "0xFF"

\* a payload that keeps its letters as they came
upper_none(s) == s

\* str.upper
upper(s) ==
    [i \in 1..Len(s) |->
        IF \E k \in DOMAIN LowerCase : LowerCase[k] = s[i]
        THEN UpperCase[CHOOSE k \in DOMAIN LowerCase : LowerCase[k] = s[i]]
        ELSE s[i]]

RECURSIVE lstrip(_)
lstrip(s) ==
    IF s # <<>> /\ Head(s) \in Whitespace THEN lstrip(Tail(s)) ELSE s

RECURSIVE rstrip(_)
rstrip(s) ==
    IF s # <<>> /\ s[Len(s)] \in Whitespace
    THEN rstrip(SubSeq(s, 1, Len(s) - 1)) ELSE s

\* str.strip
strip(s) == rstrip(lstrip(s))

IsDigit(c) == \E k \in DOMAIN Digits : Digits[k] = c
digit(c) == (CHOOSE k \in DOMAIN Digits : Digits[k] = c) - 1

RECURSIVE digits_value(_)
digits_value(s) ==
    IF s = <<>> THEN 0
    ELSE 10 * digits_value(SubSeq(s, 1, Len(s) - 1)) + digit(s[Len(s)])

\* the text of a number without blanks around it and without its sign
unsigned(s) ==
    LET t == strip(s) IN
    IF t # <<>> /\ t[1] \in {"+", "-"} THEN Tail(t) ELSE t

negative(s) == strip(s) # <<>> /\ strip(s)[1] = "-"

\* int(s) returns: blanks, a sign, then digits only
int_parses(s) ==
    /\ unsigned(s) # <<>>
    /\ \A i \in DOMAIN unsigned(s) : IsDigit(unsigned(s)[i])

\* int(s)
py_int(s) ==
    IF negative(s) THEN 0 - digits_value(unsigned(s))
    ELSE digits_value(unsigned(s))

\* the digits before and after the decimal point of a number text
int_part(s) ==
    LET u == unsigned(s) IN
    IF \E i \in DOMAIN u : u[i] = "."
    THEN SubSeq(u, 1, (CHOOSE i \in DOMAIN u :
                          u[i] = "." /\ \A j \in 1..(i - 1) : u[j] # ".") - 1)
    ELSE u
frac_part(s) ==
    LET u == unsigned(s) IN SubSeq(u, Len(int_part(s)) + 2, Len(u))

\* float(s) returns: blanks, a sign, digits with at most one decimal point
float_parses(s) ==
    /\ int_part(s) \o frac_part(s) # <<>>
    /\ \A i \in DOMAIN int_part(s) : IsDigit(int_part(s)[i])
    /\ \A i \in DOMAIN frac_part(s) : IsDigit(frac_part(s)[i])

\* float(s) in tenths, for a text with at most one decimal
py_float10(s) ==
    LET a == 10 * digits_value(int_part(s))
               + (IF frac_part(s) = <<>> THEN 0 ELSE digit(frac_part(s)[1]))
    IN  IF negative(s) THEN 0 - a ELSE a

\* str(n) of a natural number
RECURSIVE str_int(_)
str_int(n) ==
    IF n < 10 THEN <<Digits[n + 1]>>
    ELSE str_int(n \div 10) \o <<Digits[(n % 10) + 1]>>

\* str.endswith("?") and str.rstrip("?")
ends_q(s) == s # <<>> /\ s[Len(s)] = "?"

RECURSIVE rstrip_q(_)
rstrip_q(s) ==
    IF s # <<>> /\ s[Len(s)] = "?"
    THEN rstrip_q(SubSeq(s, 1, Len(s) - 1)) ELSE s

\* ------------------------------------------------ host library, pure parts
\* the connection check left out
NotConnected_never(s) == FALSE

\* Automation2040W._send_command, line 181: not self.serial or not is_open
NotConnected(s) == s = "None"

\* the port behind an open handle is gone: pyserial raises SerialException
PortGone(s) == s = "stale"

\* disconnect closing the handle without the test of line 164
disconnect_unguarded(s) ==
    IF s # "None" THEN [serial |-> "None", raised |-> FALSE]
    ELSE [serial |-> s, raised |-> TRUE]

\* Automation2040W.disconnect on the serial field s
disconnect(s) ==
    IF s # "None" THEN [serial |-> "None", raised |-> FALSE]
    ELSE [serial |-> s, raised |-> FALSE]

\* the terminating test of the read loop, line 199
Terminates(line) == line.tag \in {"OK", "ERR", "{"}

\* an empty read reported as a timeout of its own type
Finish_timeout(ls) ==
    IF ls = <<>> THEN Exc("TimeoutError", "No response from board")
    ELSE IF ls[1].tag = "ERR" THEN Exc("CommandError", ls[1].rest)
    ELSE Ok(ls[1])

\* _send_command after the read loop, lines 202-215
Finish(ls) ==
    IF ls = <<>> THEN Exc("CommandError", "No response from board")
    ELSE IF ls[1].tag = "ERR" THEN Exc("CommandError", ls[1].rest)
    ELSE Ok(ls[1])

\* json.loads(response) in Automation2040W.status
IsJson(r) == r.type = "ok" /\ r.tag = "{"

\* ------------------------------------------------------------- firmware
\* AutomationController.cmd_relay (set form) on the relay states rs
cmd_relay(rs, c) ==
    IF ~(0 <= c.n - 1 /\ c.n - 1 < NUM_RELAYS) THEN rs
    ELSE [rs EXCEPT ![c.n] = (c.arg \in {"ON", "1", "TRUE", "HIGH"})]

\* AutomationController.cmd_output (set form) on the output duties os:
\* float(val_str) / 100.0 clamped into [0.0, 1.0]
cmd_output(os, c) ==
    IF ~(0 <= c.n - 1 /\ c.n - 1 < NUM_OUTPUTS) THEN os
    ELSE [os EXCEPT ![c.n] = IF c.val < 0 THEN 0
                             ELSE IF c.val > 100 THEN 100 ELSE c.val]

\* the device state after parse_command(c)
DevApply(rs, c) ==
    IF c.verb = "RELAY" THEN cmd_relay(rs, c)
    ELSE IF c.verb = "RESET" THEN [i \in 1..NUM_RELAYS |-> FALSE]
    ELSE rs

\* the output duties after parse_command(c)
DevApplyOutputs(os, c) ==
    IF c.verb = "OUTPUT" THEN cmd_output(os, c)
    ELSE IF c.verb = "RESET" THEN [i \in 1..NUM_OUTPUTS |-> 0]
    ELSE os

\* what the pins read: the digital inputs, the ADC voltages in millivolts
\* and whether a button is held
Unwired ==
    [inputs |-> [i \in 1..NUM_INPUTS |-> FALSE],
     adcs |-> [i \in 1..NUM_ADCS |-> 0], pressed |-> FALSE]

\* a status that lists only the relays that are on
cmd_status_short(rs, os, hw) ==
    [relays |-> SelectSeq(rs, LAMBDA b : b), outputs |-> os,
     inputs |-> hw.inputs, adcs |-> hw.adcs]

\* AutomationController.cmd_status: one entry per channel of each kind,
\* each duty as round(output * 100, 1)
cmd_status(rs, os, hw) ==
    [relays |-> [i \in 1..NUM_RELAYS |-> rs[i]],
     outputs |-> [i \in 1..NUM_OUTPUTS |-> os[i]],
     inputs |-> [i \in 1..NUM_INPUTS |-> hw.inputs[i]],
     adcs |-> [i \in 1..NUM_ADCS |-> hw.adcs[i]]]

\* the line parse_command(c) prints, answering thread t
parse_command(rs, os, c, t) ==
    IF c.verb = "RELAY" THEN
        IF ~(0 <= c.n - 1 /\ c.n - 1 < NUM_RELAYS)
        THEN Line("ERR", "Relay index out of range", NoData, t)
        ELSE Line("OK", "", NoData, t)
    ELSE IF c.verb = "OUTPUT" THEN
        IF ~(0 <= c.n - 1 /\ c.n - 1 < NUM_OUTPUTS)
        THEN Line("ERR", "Output index out of range", NoData, t)
        ELSE Line("OK", "", NoData, t)
    ELSE IF c.verb = "STATUS"
    THEN Line("{", "", cmd_status(rs, os, Unwired), t)
    ELSE IF c.verb = "RESET" THEN Line("OK", "", NoData, t)
    ELSE IF c.verb = "VERSION" THEN Line("OK", VERSION, NoData, t)
    ELSE IF c.verb = "PING" THEN Line("OK", "PONG", NoData, t)
    ELSE Line("ERR", "Unknown command", NoData, t)

\* ------------------------------------------- firmware, command lines as text
\* A command line is the list of its blank-separated words (str.split), each
\* word the sequence of its characters. A printed line is its prefix class
\* (tag), the words after the prefix and the JSON value it carries; the text
\* of a message is one word.
Printed(tag, words) == [tag |-> tag, words |-> words, data |-> NoData]

\* a handler returned after printing, or raised exception e
Did(printed, rs, os) ==
    [printed |-> printed, raised |-> "", relays |-> rs, outputs |-> os]
Threw(e, rs, os) ==
    [printed |-> <<>>, raised |-> e, relays |-> rs, outputs |-> os]

\* max(0.0, min(1.0, value)), in thousandths
clamp(v) == IF v < 0 THEN 0 ELSE IF v > 1000 THEN 1000 ELSE v

\* MicroPython floats are IEEE single precision: a positive float is
\* m / 2^k with 2^23 <= m < 2^24, and every operation rounds its exact
\* result to the nearest such value, ties to the even m.
RECURSIVE Pow2(_)
Pow2(k) == IF k = 0 THEN 1 ELSE 2 * Pow2(k - 1)

\* the k of the float nearest to num / den, for 0 < num <= den
RECURSIVE f32_scale(_, _, _)
f32_scale(num, den, k) ==
    IF (num * Pow2(k)) \div den >= Pow2(23) THEN k
    ELSE f32_scale(num, den, k + 1)

\* q or q + 1: the quotient q with remainder r of a division by d, rounded
nearest_even(q, r, d) ==
    IF 2 * r > d \/ (2 * r = d /\ q % 2 = 1) THEN q + 1 ELSE q

\* float(val_str) / 100.0 of cmd_output line 190 for a whole percentage v
f32_div100(v) ==
    LET k == f32_scale(v, 100, 0)
    IN  [m |-> nearest_even((v * Pow2(k)) \div 100, (v * Pow2(k)) % 100, 100),
         k |-> k]

\* the bits a product p has above the 24 a float holds
RECURSIVE f32_excess(_, _)
f32_excess(p, s) ==
    IF p \div Pow2(s) < Pow2(24) THEN s ELSE f32_excess(p, s + 1)

\* int(value * 100) of cmd_output line 169 for the float value x
f32_int_times100(x) ==
    LET p == x.m * 100
        s == f32_excess(p, 0)
        q == nearest_even(p \div Pow2(s), p % Pow2(s), Pow2(s))
    IN  (q * Pow2(s)) \div Pow2(x.k)

\* what OUTPUT n? prints for a duty that was set from the percentage v
int_percent(v) == IF v = 0 THEN 0 ELSE f32_int_times100(f32_div100(v))

\* the range test of every indexed command
InRange(index, num) == 0 <= index /\ index < num

\* a handler that answers an index out of range as if it had been served
range_error_ok(what, num, rs, os) == Did(<<Printed("OK", <<>>)>>, rs, os)

\* the reply to an index out of range, f"ERR Relay index out of range
\* (1-{self.board.NUM_RELAYS})" and the like, after which the handler returns
range_error(what, num, rs, os) ==
    Did(<<Printed("ERR", <<(<<what>>), (<<"index out of range">>),
                           <<"(", "1", "-">> \o str_int(num) \o <<")">>>>)>>,
        rs, os)

\* a cmd_reset that leaves the relays as they are
reset_line_outputs(rs, os) ==
    Did(<<Printed("OK", <<>>)>>, rs, [i \in 1..NUM_OUTPUTS |-> 0])

\* AutomationController.cmd_reset, lines 308-311
reset_line(rs, os) ==
    Did(<<Printed("OK", <<>>)>>,
        [i \in 1..NUM_RELAYS |-> FALSE], [i \in 1..NUM_OUTPUTS |-> 0])

\* AutomationController.cmd_relay, lines 113-151
relay_line(rs, os, args) ==
    IF args = <<>>
    THEN Did(<<Printed("ERR", <<(<<"RELAY requires arguments">>)>>)>>, rs, os)
    ELSE IF ends_q(args[1]) THEN
        IF ~int_parses(rstrip_q(args[1])) THEN Threw("ValueError", rs, os)
        ELSE LET index == py_int(rstrip_q(args[1])) - 1 IN
             IF ~InRange(index, NUM_RELAYS)
             THEN range_error("Relay", NUM_RELAYS, rs, os)
             ELSE Did(<<Printed("OK", <<IF rs[index + 1] THEN s_ON
                                                         ELSE s_OFF>>)>>,
                      rs, os)
    ELSE IF Len(args) < 2
    THEN Did(<<Printed("ERR", <<(<<"RELAY requires index and state">>)>>)>>,
             rs, os)
    ELSE IF ~int_parses(args[1]) THEN Threw("ValueError", rs, os)
    ELSE LET index == py_int(args[1]) - 1 IN
         IF ~InRange(index, NUM_RELAYS)
         THEN range_error("Relay", NUM_RELAYS, rs, os)
         ELSE Did(<<Printed("OK", <<>>)>>,
                  [rs EXCEPT ![index + 1] =
                       (args[2] \in {s_ON, s_1, s_TRUE, s_HIGH})],
                  os)

\* AutomationController.cmd_output, lines 153-196; the duty is kept in
\* whole percents
output_line(rs, os, args) ==
    IF args = <<>>
    THEN Did(<<Printed("ERR", <<(<<"OUTPUT requires arguments">>)>>)>>, rs, os)
    ELSE IF ends_q(args[1]) THEN
        IF ~int_parses(rstrip_q(args[1])) THEN Threw("ValueError", rs, os)
        ELSE LET index == py_int(rstrip_q(args[1])) - 1 IN
             IF ~InRange(index, NUM_OUTPUTS)
             THEN range_error("Output", NUM_OUTPUTS, rs, os)
             ELSE Did(<<Printed("OK", <<str_int(int_percent(os[index + 1]))>>)>>,
                      rs, os)
    ELSE IF Len(args) < 2
    THEN Did(<<Printed("ERR", <<(<<"OUTPUT requires index and value">>)>>)>>,
             rs, os)
    ELSE IF ~int_parses(args[1]) THEN Threw("ValueError", rs, os)
    ELSE LET index == py_int(args[1]) - 1 IN
         IF ~InRange(index, NUM_OUTPUTS)
         THEN range_error("Output", NUM_OUTPUTS, rs, os)
         ELSE IF args[2] \in {s_ON, s_TRUE, s_HIGH}
         THEN Did(<<Printed("OK", <<>>)>>, rs, [os EXCEPT ![index + 1] = 100])
         ELSE IF args[2] \in {s_OFF, s_FALSE, s_LOW}
         THEN Did(<<Printed("OK", <<>>)>>, rs, [os EXCEPT ![index + 1] = 0])
         ELSE IF ~float_parses(args[2]) THEN Threw("ValueError", rs, os)
         ELSE Did(<<Printed("OK", <<>>)>>, rs,
                  [os EXCEPT ![index + 1] =
                       clamp(py_float10(args[2])) \div 10])

\* AutomationController.cmd_input, lines 198-213
input_line(rs, os, hw, args) ==
    IF args = <<>>
    THEN Did(<<Printed("ERR", <<(<<"INPUT requires index">>)>>)>>, rs, os)
    ELSE IF ~int_parses(rstrip_q(args[1])) THEN Threw("ValueError", rs, os)
    ELSE LET index == py_int(rstrip_q(args[1])) - 1 IN
         IF ~InRange(index, NUM_INPUTS)
         THEN range_error("Input", NUM_INPUTS, rs, os)
         ELSE Did(<<Printed("OK", <<IF hw.inputs[index + 1] THEN s_HIGH
                                                            ELSE s_LOW>>)>>,
                  rs, os)

\* f"{voltage:.3f}" of a voltage given in millivolts
fmt3(mv) ==
    str_int(mv \div 1000) \o <<".">> \o str_int((mv \div 100) % 10)
        \o str_int((mv \div 10) % 10) \o str_int(mv % 10)

\* AutomationController.cmd_adc, lines 215-229
adc_line(rs, os, hw, args) ==
    IF args = <<>>
    THEN Did(<<Printed("ERR", <<(<<"ADC requires index">>)>>)>>, rs, os)
    ELSE IF ~int_parses(rstrip_q(args[1])) THEN Threw("ValueError", rs, os)
    ELSE LET index == py_int(rstrip_q(args[1])) - 1 IN
         IF ~InRange(index, NUM_ADCS)
         THEN range_error("ADC", NUM_ADCS, rs, os)
         ELSE Did(<<Printed("OK", <<fmt3(hw.adcs[index + 1])>>)>>, rs, os)

\* AutomationController.cmd_led, lines 231-254
led_line(rs, os, args) ==
    IF args = <<>>
    THEN Did(<<Printed("ERR", <<(<<"LED requires button and brightness">>)>>)>>,
             rs, os)
    ELSE IF args[1] \notin {s_A, s_B}
    THEN Did(<<Printed("ERR", <<(<<"LED button must be A or B">>)>>)>>, rs, os)
    ELSE IF Len(args) < 2
    THEN Did(<<Printed("ERR", <<(<<"LED requires brightness">>)>>)>>, rs, os)
    ELSE IF ~int_parses(args[2]) THEN Threw("ValueError", rs, os)
    ELSE Did(<<Printed("OK", <<>>)>>, rs, os)

\* AutomationController.cmd_button, lines 256-272
button_line(rs, os, hw, args) ==
    IF args = <<>>
    THEN Did(<<Printed("ERR", <<(<<"BUTTON requires button">>)>>)>>, rs, os)
    ELSE IF rstrip_q(args[1]) \notin {s_A, s_B}
    THEN Did(<<Printed("ERR", <<(<<"BUTTON must be A or B">>)>>)>>, rs, os)
    ELSE Did(<<Printed("OK", <<(<<IF hw.pressed THEN "PRESSED"
                                                ELSE "RELEASED">>)>>)>>,
             rs, os)

\* AutomationController.cmd_help, lines 313-334: one print of a text of
\* fourteen lines, the first of which begins with OK
cmd_help ==
    <<Printed("OK", <<(<<"Commands:">>)>>),
      Printed("", <<(<<"RELAY <n> <ON|OFF>   - Set relay">>)>>),
      Printed("", <<(<<"RELAY <n>?           - Query relay state">>)>>),
      Printed("", <<(<<"OUTPUT <n> <0-100>   - Set output PWM %">>)>>),
      Printed("", <<(<<"OUTPUT <n> <ON|OFF>  - Set output full on/off">>)>>),
      Printed("", <<(<<"OUTPUT <n>?          - Query output state">>)>>),
      Printed("", <<(<<"INPUT <n>?           - Query input">>)>>),
      Printed("", <<(<<"ADC <n>?             - Query ADC voltage">>)>>),
      Printed("", <<(<<"LED <A|B> <0-100>    - Set button LED brightness">>)>>),
      Printed("", <<(<<"BUTTON <A|B>?        - Query button state">>)>>),
      Printed("", <<(<<"STATUS               - Get all states as JSON">>)>>),
      Printed("", <<(<<"RESET                - Reset to safe state">>)>>),
      Printed("", <<(<<"VERSION              - Show firmware version">>)>>),
      Printed("", <<(<<"PING                 - Test connection">>)>>)>>

\* run lines 338-342: the banner the firmware prints when it starts
banner ==
    <<Printed("#", <<(<<"Automation 2040 W Controller v1.0.0">>)>>),
      Printed("#", <<(<<"Relays: 3, Outputs: 3, Inputs: 4, ADCs: 3">>)>>),
      Printed("#", <<(<<"Ready - type HELP for commands">>)>>)>>

\* line.startswith("#") of a stripped line
IsComment(line) == line # <<>> /\ line[1] # <<>> /\ line[1][1] = "#"

\* a parse_command that swallows what its handlers raise
parse_line_quiet(rs, os, hw, line) ==
    IF line = <<>> \/ IsComment(line)
    THEN [out |-> <<>>, relays |-> rs, outputs |-> os]
    ELSE LET verb == upper(line[1])
             args == [i \in 1..(Len(line) - 1) |-> upper(line[i + 1])]
             h == IF verb = s_RELAY THEN relay_line(rs, os, args)
                  ELSE IF verb = s_OUTPUT THEN output_line(rs, os, args)
                  ELSE Did(<<Printed("OK", <<>>)>>, rs, os)
         IN  [out |-> h.printed, relays |-> h.relays, outputs |-> h.outputs]

\* AutomationController.parse_command, lines 72-111, on the relays rs, the
\* duties os and the pin readings hw: the lines it prints and the state it
\* leaves
parse_line(rs, os, hw, line) ==
    IF line = <<>> \/ IsComment(line)
    THEN [out |-> <<>>, relays |-> rs, outputs |-> os]
    ELSE LET verb == upper(line[1])
             args == [i \in 1..(Len(line) - 1) |-> upper(line[i + 1])]
             h == IF verb = s_RELAY THEN relay_line(rs, os, args)
                  ELSE IF verb = s_OUTPUT THEN output_line(rs, os, args)
                  ELSE IF verb = s_INPUT THEN input_line(rs, os, hw, args)
                  ELSE IF verb = s_ADC THEN adc_line(rs, os, hw, args)
                  ELSE IF verb = s_LED THEN led_line(rs, os, args)
                  ELSE IF verb = s_BUTTON THEN button_line(rs, os, hw, args)
                  ELSE IF verb = s_STATUS
                  THEN Did(<<[tag |-> "{", words |-> <<>>,
                              data |-> cmd_status(rs, os, hw)]>>, rs, os)
                  ELSE IF verb = s_RESET
                  THEN reset_line(rs, os)
                  ELSE IF verb = s_VERSION
                  THEN Did(<<Printed("OK", <<(<<VERSION>>)>>)>>, rs, os)
                  ELSE IF verb = s_HELP THEN Did(cmd_help, rs, os)
                  ELSE IF verb = s_PING
                  THEN Did(<<Printed("OK", <<s_PONG>>)>>, rs, os)
                  ELSE Did(<<Printed("ERR", <<(<<"Unknown command:">>), verb>>)>>,
                           rs, os)
         IN  [out |-> h.printed \o
                  (IF h.raised # ""
                   THEN <<Printed("ERR", <<(<<h.raised>>)>>)>> ELSE <<>>),
              relays |-> h.relays, outputs |-> h.outputs]

\* --------------------------------------------- host library, lines as text
\* f"{index}" of an integer
str_py(n) == IF n < 0 THEN <<"-">> \o str_int(0 - n) ELSE str_int(n)

\* the command lines Automation2040W.relay formats, lines 235-239
relay_set_line(index, state) ==
    <<s_RELAY, str_py(index), IF state THEN s_ON ELSE s_OFF>>
relay_query_line(index) == <<s_RELAY, str_py(index) \o <<"?">>>>

\* _send_command lines 189-200 on the lines buf the port holds: readline
\* returns the next line, or nothing once the buffer is empty and the read
\* timeout elapses
RECURSIVE read_loop(_, _)
read_loop(buf, ls) ==
    IF buf = <<>> THEN [lines |-> ls, rest |-> <<>>]
    ELSE IF Head(buf).tag = "#" THEN read_loop(Tail(buf), ls)
    ELSE IF Head(buf).tag \in {"OK", "ERR", "{"}
    THEN [lines |-> Append(ls, Head(buf)), rest |-> Tail(buf)]
    ELSE read_loop(Tail(buf), Append(ls, Head(buf)))

\* what _send_command returns: the type raised or "ok", and the text
Result(type, text) == [type |-> type, text |-> text]
NoResult == Result("none", <<>>)
\* a _send_command: the line written, the lines the device printed for it,
\* the outcome, and what befell the device ("hung": it did not read the
\* line; "restarted": it restarted afterwards)
NoSend == [line |-> <<>>, out |-> <<>>, resp |-> NoResult, fault |-> ""]

\* _send_command lines 202-215: the lines joined, an ERR first line raised
\* as CommandError, an OK prefix stripped
send_result(ls) ==
    IF ls = <<>> THEN Result("CommandError", <<>>)
    ELSE IF ls[1].tag = "ERR" THEN Result("CommandError", <<ls[1]>>)
    ELSE IF ls[1].tag = "OK"
    THEN Result("ok", <<[ls[1] EXCEPT !.tag = ""]>> \o Tail(ls))
    ELSE Result("ok", ls)

\* a relay query that takes any answer for ON
relay_result_any(r) == r.type = "ok"

\* Automation2040W.relay(index) on the outcome r of its query, line 240:
\* response == "ON"
relay_result(r) == r.text = <<Printed("", <<s_ON>>)>>

\* ------------------------------------------------- host service, pure parts
\* AutomationService.disconnect_board on (self.board, the serial fields,
\* self.board_connected)
disconnect_board(b, ser) ==
    [board |-> 0,
     serial |-> IF b # 0 THEN [ser EXCEPT ![b] = disconnect(ser[b]).serial]
                ELSE ser,
     board_connected |-> FALSE]

\* on_mqtt_message lines 358-399 without the connection test of line 365:
\* what the callback makes of message m, up to its board call. Every
\* exception is caught by the handler's own try
on_mqtt_message(m) ==
    IF Undecodable(m.payload) THEN Caught("UnicodeDecodeError")
    ELSE LET payload == upper(strip(m.payload)) IN
    IF m.base = "relay" THEN
        IF ~int_parses(m.last) THEN Caught("ValueError")
        ELSE Calls(relay_cmd(py_int(m.last),
                             payload \in {s_ON, s_1, s_TRUE}))
    ELSE IF m.base = "output" THEN
        IF ~int_parses(m.last) THEN Caught("ValueError")
        ELSE IF payload \in {s_ON, s_TRUE}
        THEN Calls(output_cmd(py_int(m.last), 100))
        ELSE IF payload \in {s_OFF, s_FALSE}
        THEN Calls(output_cmd(py_int(m.last), 0))
        ELSE IF ~int_parses(payload) THEN Caught("ValueError")
        ELSE Calls(output_cmd(py_int(m.last), py_int(payload)))
    ELSE IF m.base = "command" /\ payload = s_RESET THEN Calls(RESET)
    ELSE IF m.base = "command" /\ payload = s_STATUS THEN Calls(STATUS)
    ELSE Calls(NoCmd)

\* ------------------------------------------- WiFi firmware, pure parts

\* AutomationController.mqtt_callback lines 187-223: what the callback makes
\* of message m. The decode of lines 187-188 stands before the try; reset
\* and publish_status are the calls RESET and STATUS. An output value is in
\* thousandths of full scale
mqtt_callback(m) ==
    IF Undecodable(m.payload) THEN Raised("UnicodeError")
    ELSE LET payload == strip(upper(m.payload)) IN
    IF m.base = "relay" THEN
        IF ~int_parses(m.last) THEN Caught("ValueError")
        ELSE IF 0 <= py_int(m.last) - 1 /\ py_int(m.last) - 1 < NUM_RELAYS
        THEN Calls(relay_cmd(py_int(m.last),
                             payload \in {s_ON, s_1, s_TRUE}))
        ELSE Calls(NoCmd)
    ELSE IF m.base = "output" THEN
        IF ~int_parses(m.last) THEN Caught("ValueError")
        ELSE IF ~(0 <= py_int(m.last) - 1 /\ py_int(m.last) - 1 < NUM_OUTPUTS)
        THEN Calls(NoCmd)
        ELSE IF payload \in {s_ON, s_TRUE}
        THEN Calls(output_cmd(py_int(m.last), clamp(1000)))
        ELSE IF payload \in {s_OFF, s_FALSE}
        THEN Calls(output_cmd(py_int(m.last), clamp(0)))
        ELSE IF ~float_parses(payload) THEN Caught("ValueError")
        ELSE Calls(output_cmd(py_int(m.last), clamp(py_float10(payload))))
    ELSE IF m.base = "command" /\ payload = s_RESET THEN Calls(RESET)
    ELSE IF m.base = "command" /\ payload = s_STATUS THEN Calls(STATUS)
    ELSE Calls(NoCmd)

\* publish_status lines 231-237: the status the firmware publishes, outputs
\* as int(v * 100)
wifi_status(rs, ov) ==
    [relays |-> rs, outputs |-> [i \in 1..NUM_OUTPUTS |-> ov[i] \div 10],
     inputs |-> Unwired.inputs, adcs |-> Unwired.adcs]

\* the board's relays after board call c: board.relay(index, state) of
\* mqtt_callback line 199, of the HTTP handlers, and of reset line 265
board_relay(hw, c) ==
    IF c.verb = "RELAY" THEN [hw EXCEPT ![c.n] = (c.arg = "ON")]
    ELSE IF c.verb = "RESET" THEN [i \in 1..NUM_RELAYS |-> FALSE]
    ELSE hw

\* the board's outputs after board call c: board.output(index, value) of
\* mqtt_callback line 213, of the HTTP handlers, and of reset line 268
board_output(hw, c) ==
    IF c.verb = "OUTPUT" THEN [hw EXCEPT ![c.n] = c.val]
    ELSE IF c.verb = "RESET" THEN [i \in 1..NUM_OUTPUTS |-> 0]
    ELSE hw

\* relay_states when reset() switches the relays and leaves the list alone
wifi_relays_kept(rs, c) ==
    IF c.verb = "RELAY" THEN [rs EXCEPT ![c.n] = (c.arg = "ON")]
    ELSE rs

\* relay_states after board call c of the MQTT callback (lines 199-200,
\* reset lines 264-266)
wifi_relays(rs, c) ==
    IF c.verb = "RELAY" THEN [rs EXCEPT ![c.n] = (c.arg = "ON")]
    ELSE IF c.verb = "RESET" THEN [i \in 1..NUM_RELAYS |-> FALSE]
    ELSE rs

\* output_values after board call c (lines 213-214, reset lines 267-269)
wifi_outputs(ov, c) ==
    IF c.verb = "OUTPUT" THEN [ov EXCEPT ![c.n] = c.val]
    ELSE IF c.verb = "RESET" THEN [i \in 1..NUM_OUTPUTS |-> 0]
    ELSE ov

\* http_server.handle_relay_control / handle_output_control, lines 434-468,
\* and the reset route, lines 232-234: the board call request r leads to.
\* int() of the path segment or json.loads of the body may raise; a
\* channel the board does not have leads to no call
http_call(r) ==
    IF r.route = "reset" THEN Calls(RESET)
    ELSE IF ~int_parses(r.last) THEN Caught("ValueError")
    ELSE IF ~r.body.valid THEN Caught("ValueError")
    ELSE IF r.route = "relay" THEN
        IF 0 <= py_int(r.last) - 1 /\ py_int(r.last) - 1 < NUM_RELAYS
        THEN Calls(relay_cmd(py_int(r.last), r.body.state))
        ELSE Calls(NoCmd)
    ELSE IF 0 <= py_int(r.last) - 1 /\ py_int(r.last) - 1 < NUM_OUTPUTS
        THEN Calls(output_cmd(py_int(r.last), clamp(10 * r.body.value)))
        ELSE Calls(NoCmd)

\* http_server.handle_relay_toggle / handle_output_toggle, lines 398-431:
\* the board call a toggle request leads to, from the tracked state rs, ov
http_toggle(r, rs, ov) ==
    IF ~int_parses(r.last) THEN Caught("ValueError")
    ELSE IF r.route = "relay_toggle" THEN
        IF 0 <= py_int(r.last) - 1 /\ py_int(r.last) - 1 < NUM_RELAYS
        THEN Calls(relay_cmd(py_int(r.last), ~rs[py_int(r.last)]))
        ELSE Calls(NoCmd)
    ELSE IF 0 <= py_int(r.last) - 1 /\ py_int(r.last) - 1 < NUM_OUTPUTS
        THEN Calls(output_cmd(py_int(r.last),
                              IF ov[py_int(r.last)] > 0 THEN 0 ELSE 1000))
        ELSE Calls(NoCmd)

\* handle_http_request lines 232-260: the response to a write request whose
\* handler ended as o: json.dumps({"status": "ok", ...}) or
\* json.dumps({"status": "error"}), both under "HTTP/1.0 200 OK"
http_response(o) ==
    IF o.call # NoCmd THEN [code |-> 200, status |-> "ok", error |-> ""]
    ELSE [code |-> 200, status |-> "error", error |-> ""]

\* Automation2040W.connect, lines 150-160: the exception that leaves connect()
\* when the _send_command of handshake command c ended with outcome r
connect_raises(c, r) ==
    IF r.type = "SerialException" THEN "ConnectionError"
    ELSE IF r.type # "ok" THEN r.type
    ELSE IF c = PING /\ ~(r.tag = "OK" /\ r.rest = "PONG") THEN "ConnectionError"
    ELSE "none"

\* ----------------------------------------------------------------- Init
\* AutomationService.__init__ lines 67-81, with the board and the broker as
\* the service finds them
InitService ==
    /\ running = FALSE
    /\ board = 0
    /\ board_connected = FALSE
    /\ mqtt_connected = FALSE
    /\ mqtt_loops = 0
    /\ broker_up = FALSE
    /\ last_status = EmptyStatus
    /\ error_count = 0
    /\ pub = EmptyStatus
    /\ nobj = 0
    /\ serial = <<>>
    /\ wire_in = <<>>
    /\ wire_out = <<>>
    /\ dev_relays = [i \in 1..NUM_RELAYS |-> FALSE]
    /\ board_mode \in {"absent", "mute", "ok"}
    /\ pc = [t \in Threads |-> IF t = Worker THEN "init" ELSE "idle"]
    /\ obj = [t \in Threads |-> 0]
    /\ cmd = [t \in Threads |-> NoCmd]
    /\ lines = [t \in Threads |-> <<>>]
    /\ resp = [t \in Threads |-> NoResp]
    /\ dev_outputs = [i \in 1..NUM_OUTPUTS |-> 0]
    /\ reply = NoReply
    /\ msg = NoMsg

\* no message under test
InitNoTest ==
    /\ test_msg = NoMsg
    /\ host_out = NoOut
    /\ wifi_out = NoOut

\* the WiFi firmware before AutomationController.run, lines 64-78
InitWifi ==
    /\ w_pc = "boot"
    /\ w_mqtt_connected = FALSE
    /\ relay_states = [i \in 1..NUM_RELAYS |-> FALSE]
    /\ output_values = [i \in 1..NUM_OUTPUTS |-> 0]
    /\ w_inbox = <<>>
    /\ request = NoRequest
    /\ response = NoResponse
    /\ w_pub = EmptyStatus
    /\ pins = [i \in 1..NUM_INPUTS |-> FALSE]
    /\ last_inputs = [i \in 1..NUM_INPUTS |-> FALSE]
    /\ w_in_pub = <<>>
    /\ board_relays = [i \in 1..NUM_RELAYS |-> FALSE]
    /\ board_outputs = [i \in 1..NUM_OUTPUTS |-> 0]

\* a client that has opened the port and sent nothing yet
InitLink ==
    /\ rx = <<>>
    /\ lib_last = NoSend
    /\ lib_prev = NoSend

Init == InitService /\ InitNoTest /\ InitWifi /\ InitLink

\* ------------------------------------------------- AutomationService.start
Start ==
    /\ pc[Worker] = "init"
    /\ running' = TRUE
    /\ pc' = [pc EXCEPT ![Worker] = "w_top"]
    /\ UNCHANGED <<board, board_connected, mqtt_connected, mqtt_loops,
                   last_status, error_count, pub, nobj, serial, wire_in,
                   wire_out, dev_vars, obj, cmd, lines, resp, io_vars,
                   other_vars>>

\* --------------------------------------- Automation2040W._send_command
\* _send_command leaves with outcome r: the caller of thread t resumes
Leave(t, r) ==
    /\ resp' = [resp EXCEPT ![t] = r]
    /\ pc' = [pc EXCEPT ![t] = "ret"]
    /\ lines' = [lines EXCEPT ![t] = <<>>]
    /\ UNCHANGED <<svc_vars, obj, cmd>>

\* lines 181-186: the connection check, then serial.write and flush; a
\* vanished port raises before any byte is written. flush returns when the
\* device has taken the previous line off the port
SendWrite(t) ==
    /\ pc[t] = "send"
    /\ IF NotConnected(serial[obj[t]])
       THEN Leave(t, Exc("CommandError", "Not connected to board"))
            /\ UNCHANGED wire_in
       ELSE IF PortGone(serial[obj[t]])
       THEN Leave(t, Exc("SerialException", "")) /\ UNCHANGED wire_in
       ELSE /\ wire_in = <<>>
            /\ wire_in' = Append(wire_in, [c |-> cmd[t], from |-> t])
            /\ pc' = [pc EXCEPT ![t] = "read"]
            /\ UNCHANGED <<svc_vars, obj, cmd, lines, resp>>
    /\ UNCHANGED <<wire_out, dev_vars, io_vars, other_vars>>

\* lines 189-200: one readline of the read loop. readline returns the next
\* buffered line, or the empty string when the read timeout elapses: nothing
\* is buffered and the device holds no command of this thread to answer.
\* After disconnect() self.serial is None and the call raises
SendRead(t) ==
    /\ pc[t] = "read"
    /\ IF NotConnected(serial[obj[t]])
       THEN Leave(t, Exc("AttributeError", "")) /\ UNCHANGED wire_out
       ELSE IF PortGone(serial[obj[t]])
       THEN Leave(t, Exc("SerialException", "")) /\ UNCHANGED wire_out
       ELSE \/ /\ wire_out # <<>>
               /\ wire_out' = Tail(wire_out)
               /\ LET line == Head(wire_out) IN
                  IF line.tag = "#"
                  THEN UNCHANGED <<svc_vars, pc, obj, cmd, lines, resp>>
                  ELSE IF Terminates(line)
                  THEN Leave(t, Finish(Append(lines[t], line)))
                  ELSE /\ lines' = [lines EXCEPT ![t] = Append(lines[t], line)]
                       /\ UNCHANGED <<svc_vars, pc, obj, cmd, resp>>
            \/ /\ wire_out = <<>>
               /\ \A i \in DOMAIN wire_in : wire_in[i].from # t
               /\ wire_out' = wire_out
               /\ Leave(t, Finish(lines[t]))
    /\ UNCHANGED <<wire_in, dev_vars, io_vars, other_vars>>

\* self.board.<method>(...): the attribute lookup on self.board, which is
\* None after disconnect_board
Call(t) ==
    /\ pc[t] = "call"
    /\ IF board = 0
       THEN Leave(t, Exc("AttributeError", ""))
       ELSE /\ obj' = [obj EXCEPT ![t] = board]
            /\ pc' = [pc EXCEPT ![t] = "send"]
            /\ UNCHANGED <<svc_vars, cmd, lines, resp>>
    /\ UNCHANGED <<wire_in, wire_out, dev_vars, io_vars, other_vars>>

\* -------------------------------------------- the board worker's handlers
\* connect_board ends with exception e out of Automation2040W(...):
\* BoardConnectionError is caught (lines 248-251), anything else leaves
\* board_worker, which has no handler around connect_board (line 273)
ConnectFailed(e) ==
    /\ board_connected' = IF e = "ConnectionError" THEN FALSE ELSE board_connected
    /\ pc' = [pc EXCEPT ![Worker] = IF e = "ConnectionError" THEN "w_top" ELSE "dead"]
    /\ obj' = [obj EXCEPT ![Worker] = 0]
    /\ cmd' = [cmd EXCEPT ![Worker] = NoCmd]
    /\ UNCHANGED <<running, board, mqtt_connected, mqtt_loops, last_status,
                   error_count, pub, nobj, serial>>

\* a reconnect that clears the error count
ConnectSucceeded_reset ==
    /\ board' = obj[Worker]
    /\ board_connected' = TRUE
    /\ error_count' = 0
    /\ mqtt_loops' = IF ~mqtt_connected /\ broker_up
                     THEN mqtt_loops + 1 ELSE mqtt_loops
    /\ pc' = [pc EXCEPT ![Worker] = "call"]
    /\ cmd' = [cmd EXCEPT ![Worker] = STATUS]
    /\ obj' = [obj EXCEPT ![Worker] = 0]
    /\ UNCHANGED <<running, mqtt_connected, last_status, pub, nobj, serial>>

\* connect_board lines 243-247 and board_worker lines 273-277 after a
\* complete handshake; setup_mqtt (lines 305-332) starts a network loop
\* when the broker accepts the connection
ConnectSucceeded ==
    /\ board' = obj[Worker]
    /\ board_connected' = TRUE
    /\ mqtt_loops' = IF ~mqtt_connected /\ broker_up
                     THEN mqtt_loops + 1 ELSE mqtt_loops
    /\ pc' = [pc EXCEPT ![Worker] = "call"]
    /\ cmd' = [cmd EXCEPT ![Worker] = STATUS]
    /\ obj' = [obj EXCEPT ![Worker] = 0]
    /\ UNCHANGED <<running, mqtt_connected, last_status, error_count, pub,
                   nobj, serial>>

\* a poll that stores the status and publishes nothing
PollSucceeded_silent(r) ==
    /\ last_status' = r.data
    /\ pub' = pub
    /\ pc' = [pc EXCEPT ![Worker] = "w_top"]
    /\ obj' = [obj EXCEPT ![Worker] = 0]
    /\ cmd' = [cmd EXCEPT ![Worker] = NoCmd]
    /\ UNCHANGED <<running, board, board_connected, mqtt_connected, mqtt_loops,
                   error_count, nobj, serial>>

\* board_worker lines 285-292 and 302-303: the poll returned status r.data
PollSucceeded(r) ==
    /\ last_status' = r.data
    /\ pub' = IF mqtt_connected THEN r.data ELSE pub
    /\ pc' = [pc EXCEPT ![Worker] = "w_top"]
    /\ obj' = [obj EXCEPT ![Worker] = 0]
    /\ cmd' = [cmd EXCEPT ![Worker] = NoCmd]
    /\ UNCHANGED <<running, board, board_connected, mqtt_connected, mqtt_loops,
                   error_count, nobj, serial>>

\* a failed poll that counts the error and keeps the link
PollFailed_keep ==
    /\ error_count' = error_count + 1
    /\ pc' = [pc EXCEPT ![Worker] = "w_top"]
    /\ obj' = [obj EXCEPT ![Worker] = 0]
    /\ cmd' = [cmd EXCEPT ![Worker] = NoCmd]
    /\ UNCHANGED <<running, board, board_connected, serial, mqtt_connected,
                   mqtt_loops, last_status, pub, nobj>>

\* board_worker lines 294-300: the poll raised
PollFailed ==
    /\ error_count' = error_count + 1
    /\ LET d == disconnect_board(board, serial) IN
         /\ board' = d.board
         /\ serial' = d.serial
         /\ board_connected' = d.board_connected
    /\ pc' = [pc EXCEPT ![Worker] = "w_top"]
    /\ obj' = [obj EXCEPT ![Worker] = 0]
    /\ cmd' = [cmd EXCEPT ![Worker] = NoCmd]
    /\ UNCHANGED <<running, mqtt_connected, mqtt_loops, last_status, pub, nobj>>

\* the worker resumes after its _send_command: in the handshake of connect
\* (lines 150-157) or in the poll (lines 285-300)
WorkerReturn ==
    /\ pc[Worker] = "ret"
    /\ resp' = [resp EXCEPT ![Worker] = NoResp]
    /\ IF cmd[Worker] = STATUS
       THEN IF IsJson(resp[Worker]) THEN PollSucceeded(resp[Worker])
            ELSE PollFailed
       ELSE LET e == connect_raises(cmd[Worker], resp[Worker]) IN
            IF e # "none" THEN ConnectFailed(e)
            ELSE IF cmd[Worker] = PING
            THEN /\ cmd' = [cmd EXCEPT ![Worker] = VERSION_CMD]
                 /\ pc' = [pc EXCEPT ![Worker] = "send"]
                 /\ UNCHANGED <<svc_vars, obj>>
            ELSE ConnectSucceeded
    /\ UNCHANGED <<lines, wire_in, wire_out, dev_vars, io_vars, other_vars>>

\* lines 270-281 and Automation2040W.connect lines 127-147: the loop test,
\* and when the board is not connected, the construction of a new
\* Automation2040W up to the flush of the input buffer
WorkerTop ==
    /\ pc[Worker] = "w_top"
    /\ IF ~running
       THEN /\ pc' = [pc EXCEPT ![Worker] = "done"]
            /\ UNCHANGED <<svc_vars, obj, cmd, wire_out>>
       ELSE IF board_connected
       THEN /\ pc' = [pc EXCEPT ![Worker] = "call"]
            /\ cmd' = [cmd EXCEPT ![Worker] = STATUS]
            /\ UNCHANGED <<svc_vars, obj, wire_out>>
       ELSE IF board_mode = "absent"
       THEN ConnectFailed("ConnectionError") /\ UNCHANGED wire_out
       ELSE /\ nobj < MaxObjs
            /\ nobj' = nobj + 1
            /\ serial' = Append(serial, "open")
            /\ wire_out' = <<>>
            /\ obj' = [obj EXCEPT ![Worker] = nobj + 1]
            /\ cmd' = [cmd EXCEPT ![Worker] = PING]
            /\ pc' = [pc EXCEPT ![Worker] = "send"]
            /\ UNCHANGED <<running, board, board_connected, mqtt_connected,
                           mqtt_loops, last_status, error_count, pub>>
    /\ UNCHANGED <<lines, resp, wire_in, dev_vars, io_vars, other_vars>>

\* ------------------------------------------------------ request handlers
HttpCmds == {relay_cmd(1, TRUE), relay_cmd(NUM_RELAYS + 1, TRUE), RESET}
MqttCmds == {relay_cmd(1, TRUE), STATUS}

\* a write handler that forwards the command whatever the connection flag
HttpRequest_unguarded(c) ==
    /\ pc["http"] = "idle"
    /\ running
    /\ pc' = [pc EXCEPT !["http"] = "call"]
    /\ cmd' = [cmd EXCEPT !["http"] = c]
    /\ UNCHANGED <<svc_vars, obj, lines, resp, wire_in, wire_out, dev_vars,
                   io_vars, other_vars>>

\* control_relay lines 186-191, control_output lines 204-209, reset lines
\* 222-224: the connection test; a request with the board disconnected is
\* answered 503 at once
HttpRequest(c) ==
    /\ pc["http"] = "idle"
    /\ running
    /\ IF ~board_connected
       THEN /\ reply' = ErrorReply(503, "Board not connected")
            /\ pc' = [pc EXCEPT !["http"] = "replied"]
            /\ UNCHANGED cmd
       ELSE /\ pc' = [pc EXCEPT !["http"] = "call"]
            /\ cmd' = [cmd EXCEPT !["http"] = c]
            /\ UNCHANGED reply
    /\ UNCHANGED <<svc_vars, obj, lines, resp, wire_in, wire_out, dev_vars,
                   msg, other_vars>>

\* a status handler that returns the cached status whatever the flag
HttpStatus_stale ==
    /\ pc["http"] = "idle"
    /\ running
    /\ pc' = [pc EXCEPT !["http"] = "st_read"]
    /\ UNCHANGED <<svc_vars, obj, cmd, lines, resp, wire_in, wire_out,
                   dev_vars, io_vars, other_vars>>

\* GET /api/status, lines 178-179: the connection test
HttpStatus ==
    /\ pc["http"] = "idle"
    /\ running
    /\ IF ~board_connected
       THEN /\ reply' = ErrorReply(503, "Board not connected")
            /\ pc' = [pc EXCEPT !["http"] = "st_replied"]
       ELSE /\ pc' = [pc EXCEPT !["http"] = "st_read"]
            /\ UNCHANGED reply
    /\ UNCHANGED <<svc_vars, obj, cmd, lines, resp, wire_in, wire_out,
                   dev_vars, msg, other_vars>>

\* GET /api/status, line 181: the cached status is returned as it is now
HttpStatusRead ==
    /\ pc["http"] = "st_read"
    /\ reply' = StatusReply(last_status)
    /\ pc' = [pc EXCEPT !["http"] = "st_replied"]
    /\ UNCHANGED <<svc_vars, obj, cmd, lines, resp, wire_in, wire_out,
                   dev_vars, msg, other_vars>>

\* the response has gone to the client, the Flask thread is free again
HttpReplied ==
    /\ pc["http"] \in {"replied", "st_replied"}
    /\ reply' = NoReply
    /\ pc' = [pc EXCEPT !["http"] = "idle"]
    /\ UNCHANGED <<svc_vars, obj, cmd, lines, resp, wire_in, wire_out,
                   dev_vars, msg, other_vars>>

\* str(e) of the exception a board call raised
str_e(r) == IF r.msg # "" THEN r.msg ELSE r.type

\* control_relay lines 193-199 (control_output, reset alike): the response
\* after the board call ended with outcome r
HttpResult(r) == IF r.type = "ok" THEN OkReply ELSE ErrorReply(500, str_e(r))

\* on_mqtt_message lines 358-367, delivered by the network loop; a message
\* with the board disconnected is dropped at once
MqttMessage(c) ==
    /\ pc["mqtt"] = "idle"
    /\ running
    /\ mqtt_connected
    /\ board_connected
    /\ pc' = [pc EXCEPT !["mqtt"] = "call"]
    /\ cmd' = [cmd EXCEPT !["mqtt"] = c]
    /\ UNCHANGED <<svc_vars, obj, lines, resp, wire_in, wire_out, dev_vars,
                   io_vars, other_vars>>

\* an MQTT STATUS command that also stores the status it fetched
HandlerReturn_cache(t) ==
    /\ pc[t] = "ret"
    /\ pub' = IF t = "mqtt" /\ cmd[t] = STATUS /\ IsJson(resp[t]) /\ mqtt_connected
              THEN resp[t].data ELSE pub
    /\ last_status' = IF t = "mqtt" /\ cmd[t] = STATUS /\ IsJson(resp[t])
                      THEN resp[t].data ELSE last_status
    /\ resp' = [resp EXCEPT ![t] = NoResp]
    /\ pc' = [pc EXCEPT ![t] = IF t = "http" THEN "replied" ELSE "idle"]
    /\ reply' = IF t = "http" THEN HttpResult(resp[t]) ELSE reply
    /\ msg' = IF t = "mqtt" THEN NoMsg ELSE msg
    /\ obj' = [obj EXCEPT ![t] = 0]
    /\ cmd' = [cmd EXCEPT ![t] = NoCmd]
    /\ UNCHANGED <<running, board, board_connected, mqtt_connected, mqtt_loops,
                   error_count, nobj, serial, lines, wire_in, wire_out,
                   dev_vars, other_vars>>

\* a handler that publishes the board's state after every command that
\* succeeded
HandlerReturn_publish(t) ==
    /\ pc[t] = "ret"
    /\ pub' = IF resp[t].type = "ok" /\ mqtt_connected
              THEN cmd_status(dev_relays, dev_outputs, Unwired) ELSE pub
    /\ resp' = [resp EXCEPT ![t] = NoResp]
    /\ pc' = [pc EXCEPT ![t] = IF t = "http" THEN "replied" ELSE "idle"]
    /\ reply' = IF t = "http" THEN HttpResult(resp[t]) ELSE reply
    /\ msg' = IF t = "mqtt" THEN NoMsg ELSE msg
    /\ obj' = [obj EXCEPT ![t] = 0]
    /\ cmd' = [cmd EXCEPT ![t] = NoCmd]
    /\ UNCHANGED <<running, board, board_connected, mqtt_connected, mqtt_loops,
                   last_status, error_count, nobj, serial, lines, wire_in,
                   wire_out, dev_vars, other_vars>>

\* an MQTT STATUS command that publishes the cached status
HandlerReturn_stale(t) ==
    /\ pc[t] = "ret"
    /\ pub' = IF t = "mqtt" /\ cmd[t] = STATUS /\ IsJson(resp[t]) /\ mqtt_connected
              THEN last_status ELSE pub
    /\ resp' = [resp EXCEPT ![t] = NoResp]
    /\ pc' = [pc EXCEPT ![t] = IF t = "http" THEN "replied" ELSE "idle"]
    /\ reply' = IF t = "http" THEN HttpResult(resp[t]) ELSE reply
    /\ msg' = IF t = "mqtt" THEN NoMsg ELSE msg
    /\ obj' = [obj EXCEPT ![t] = 0]
    /\ cmd' = [cmd EXCEPT ![t] = NoCmd]
    /\ UNCHANGED <<running, board, board_connected, mqtt_connected, mqtt_loops,
                   last_status, error_count, nobj, serial, lines, wire_in,
                   wire_out, dev_vars, other_vars>>

\* control_relay / reset lines 193-199, 226-232; on_mqtt_message lines
\* 369-399: the handler resumes after its board call
HandlerReturn(t) ==
    /\ pc[t] = "ret"
    /\ pub' = IF t = "mqtt" /\ cmd[t] = STATUS /\ IsJson(resp[t]) /\ mqtt_connected
              THEN resp[t].data ELSE pub
    /\ resp' = [resp EXCEPT ![t] = NoResp]
    /\ pc' = [pc EXCEPT ![t] = IF t = "http" THEN "replied" ELSE "idle"]
    /\ reply' = IF t = "http" THEN HttpResult(resp[t]) ELSE reply
    /\ msg' = IF t = "mqtt" THEN NoMsg ELSE msg
    /\ obj' = [obj EXCEPT ![t] = 0]
    /\ cmd' = [cmd EXCEPT ![t] = NoCmd]
    /\ UNCHANGED <<running, board, board_connected, mqtt_connected, mqtt_loops,
                   last_status, error_count, nobj, serial, lines, wire_in,
                   wire_out, dev_vars, other_vars>>

\* on_mqtt_connect (rc = 0) and on_mqtt_disconnect, lines 334-354
MqttOnConnect ==
    /\ mqtt_loops > 0
    /\ broker_up
    /\ ~mqtt_connected
    /\ mqtt_connected' = TRUE
    /\ UNCHANGED <<running, board, board_connected, mqtt_loops, last_status,
                   error_count, pub, nobj, serial, wire_in, wire_out,
                   dev_vars, pc, obj, cmd, lines, resp, io_vars, other_vars>>

MqttOnDisconnect ==
    /\ mqtt_connected
    /\ mqtt_connected' = FALSE
    /\ UNCHANGED <<running, board, board_connected, mqtt_loops, last_status,
                   error_count, pub, nobj, serial, wire_in, wire_out,
                   dev_vars, pc, obj, cmd, lines, resp, io_vars, other_vars>>

\* the broker goes down or comes back
BrokerChange ==
    /\ broker_up' = ~broker_up
    /\ UNCHANGED <<svc_vars, wire_in, wire_out, dev_relays, dev_outputs,
                   board_mode, pc, obj, cmd, lines, resp, io_vars, other_vars>>

\* AutomationService.stop lines 445-460 (signal_handler)
Stop ==
    /\ running
    /\ running' = FALSE
    /\ mqtt_loops' = IF mqtt_loops > 0 THEN mqtt_loops - 1 ELSE 0
    /\ LET d == disconnect_board(board, serial) IN
         /\ board' = d.board
         /\ serial' = d.serial
         /\ board_connected' = d.board_connected
    /\ UNCHANGED <<mqtt_connected, last_status, error_count, pub, nobj,
                   wire_in, wire_out, dev_vars, pc, obj, cmd, lines, resp,
                   io_vars, other_vars>>

\* ------------------------------------------------------------ the device
\* AutomationController.run lines 348-360: one command line is parsed and
\* answered
DeviceReply ==
    /\ board_mode = "ok"
    /\ wire_in # <<>>
    /\ LET m == Head(wire_in) IN
         /\ wire_out' = Append(wire_out,
                parse_command(dev_relays, dev_outputs, m.c, m.from))
         /\ dev_relays' = DevApply(dev_relays, m.c)
         /\ dev_outputs' = DevApplyOutputs(dev_outputs, m.c)
    /\ wire_in' = Tail(wire_in)
    /\ UNCHANGED <<svc_vars, board_mode, broker_up, pc, obj, cmd, lines, resp,
                   io_vars, other_vars>>

\* a device that hangs loses the command line it was sent
DeviceDrop ==
    /\ board_mode = "mute"
    /\ wire_in # <<>>
    /\ wire_in' = Tail(wire_in)
    /\ UNCHANGED <<svc_vars, wire_out, dev_vars, pc, obj, cmd, lines, resp,
                   io_vars, other_vars>>

\* the board is unplugged, hangs or comes back. Unplugging powers the
\* device off and invalidates every open handle of the port
BoardChange(m) ==
    /\ m # board_mode
    /\ board_mode' = m
    /\ IF m = "absent"
       THEN /\ serial' = [o \in DOMAIN serial |->
                            IF serial[o] = "open" THEN "stale" ELSE serial[o]]
            /\ wire_in' = <<>>
            /\ wire_out' = <<>>
            /\ dev_relays' = [i \in 1..NUM_RELAYS |-> FALSE]
            /\ dev_outputs' = [i \in 1..NUM_OUTPUTS |-> 0]
       ELSE UNCHANGED <<serial, wire_in, wire_out, dev_relays, dev_outputs>>
    /\ UNCHANGED <<running, board, board_connected, mqtt_connected, mqtt_loops,
                   broker_up, last_status, error_count, pub, nobj, pc, obj,
                   cmd, lines, resp, io_vars, other_vars>>

\* what the worker, the transport and the device do
Core ==
    \/ Start
    \/ WorkerTop
    \/ WorkerReturn
    \/ \E t \in Threads : Call(t)
    \/ \E t \in Threads : SendWrite(t)
    \/ \E t \in Threads : SendRead(t)
    \/ DeviceReply
    \/ DeviceDrop

\* the service with HTTP clients, a board that comes and goes, and no broker
Next ==
    \/ Core
    \/ \E c \in HttpCmds : HttpRequest(c)
    \/ HttpStatus
    \/ HttpStatusRead
    \/ HandlerReturn("http")
    \/ HttpReplied
    \/ Stop
    \/ \E m \in {"absent", "mute", "ok"} : BoardChange(m)

Spec == Init /\ [][Next]_vars

\* the service with MQTT publishers and a broker that comes and goes
NextMqtt ==
    \/ Core
    \/ \E c \in MqttCmds : MqttMessage(c)
    \/ HandlerReturn("mqtt")
    \/ MqttOnConnect
    \/ MqttOnDisconnect
    \/ BrokerChange
    \/ Stop

SpecMqtt == Init /\ [][NextMqtt]_vars

\* the service alone with its board: the worker thread keeps being
\* scheduled and the device keeps reading its port
NextLive ==
    \/ Core
    \/ Stop
    \/ \E m \in {"absent", "mute", "ok"} : BoardChange(m)

WorkerStep ==
    \/ WorkerTop
    \/ WorkerReturn
    \/ Call(Worker)
    \/ SendWrite(Worker)
    \/ SendRead(Worker)

LiveSpec ==
    /\ Init
    /\ [][NextLive]_vars
    /\ WF_vars(WorkerStep)
    /\ WF_vars(DeviceReply)
    /\ WF_vars(DeviceDrop)

\* ------------------------------------------------- the payload functions
\* the topics below the prefix: a channel, a channel the board does not
\* have, no number, and the command topic
TestTopics ==
    {[base |-> b, last |-> l] :
        b \in {"relay", "output"}, l \in {<<"1">>, <<"4">>, <<"x">>}}
    \cup {[base |-> "command", last |-> <<>>]}

TestPayloads ==
    {<<"o", "n">>, <<" ", "O", "N", " ">>, <<"O", "n", "\n">>, <<"1">>,
     <<"t", "r", "u", "e">>, <<"T", "R", "U", "E">>, <<"o", "f", "f">>,
     <<"0">>, <<"f", "a", "l", "s", "e">>, <<"y", "e", "s">>, <<>>,
     <<"7", "5">>, <<"1", "0", "0">>, <<"1", "5", "0">>, <<"-", "5">>,
     <<"5", "0", ".", "5">>, <<"a", "b", "c">>,
     <<"r", "e", "s", "e", "t">>, <<"s", "t", "a", "t", "u", "s">>,
     <<"0xFF">>}

TestMsgs ==
    {[base |-> t.base, last |-> t.last, payload |-> p] :
        t \in TestTopics, p \in TestPayloads}

\* the host service handles the message
TestHost ==
    /\ ~host_out.done
    /\ host_out' = on_mqtt_message(test_msg)
    /\ UNCHANGED <<host_vars, link_vars, test_msg, wifi_out, wifi_vars>>

\* the WiFi firmware handles the message
TestWifi ==
    /\ ~wifi_out.done
    /\ wifi_out' = mqtt_callback(test_msg)
    /\ UNCHANGED <<host_vars, link_vars, test_msg, host_out, wifi_vars>>

\* the next message
TestNext(m) ==
    /\ host_out.done
    /\ wifi_out.done
    /\ test_msg' = m
    /\ host_out' = NoOut
    /\ wifi_out' = NoOut
    /\ UNCHANGED <<host_vars, link_vars, wifi_vars>>

InitParse ==
    /\ InitService
    /\ InitWifi
    /\ InitLink
    /\ test_msg \in TestMsgs
    /\ host_out = NoOut
    /\ wifi_out = NoOut

NextParse ==
    \/ TestHost
    \/ TestWifi
    \/ \E m \in TestMsgs : TestNext(m)

SpecParse == InitParse /\ [][NextParse]_vars

\* --------------------------------------------------- the WiFi firmware
\* AutomationController.run lines 292-300: WiFi is up, the first
\* connect_mqtt starts
WifiBoot ==
    /\ w_pc = "boot"
    /\ w_pc' = "boot_connect"
    /\ UNCHANGED <<host_vars, lab_vars, w_mqtt_connected, relay_states,
                   output_values, w_inbox, request, response, w_pub>>

\* connect_mqtt lines 157-183: MQTTClient.connect returns, or raises when
\* the broker cannot be reached; until then the main loop waits in it
WifiConnect ==
    /\ w_pc \in {"boot_connect", "retry_connect"}
    /\ w_mqtt_connected' = broker_up
    /\ w_inbox' = <<>>
    /\ w_pc' = IF w_pc = "boot_connect" THEN "check" ELSE "periodic"
    /\ UNCHANGED <<host_vars, lab_vars, relay_states, output_values,
                   request, response, w_pub>>

\* run lines 314-319: check_msg reads one message and calls mqtt_callback;
\* whatever check_msg raises clears mqtt_connected
WifiCheckMsg ==
    /\ w_pc = "check"
    /\ w_pc' = "retry"
    /\ IF ~w_mqtt_connected
       THEN UNCHANGED <<w_mqtt_connected, relay_states, output_values,
                        w_inbox, w_pub, board_vars>>
       ELSE IF ~broker_up
       THEN /\ w_mqtt_connected' = FALSE
            /\ UNCHANGED <<relay_states, output_values, w_inbox, w_pub,
                           board_vars>>
       ELSE IF w_inbox = <<>>
       THEN UNCHANGED <<w_mqtt_connected, relay_states, output_values,
                        w_inbox, w_pub, board_vars>>
       ELSE LET o == mqtt_callback(Head(w_inbox)) IN
            /\ w_inbox' = Tail(w_inbox)
            /\ w_mqtt_connected' = (o.raised = "")
            /\ board_relays' = board_relay(board_relays, o.call)
            /\ relay_states' = wifi_relays(relay_states, o.call)
            /\ board_outputs' = board_output(board_outputs, o.call)
            /\ output_values' = wifi_outputs(output_values, o.call)
            /\ w_pub' = IF o.call = STATUS
                        THEN wifi_status(relay_states, output_values)
                        ELSE w_pub
    /\ UNCHANGED <<host_vars, parse_vars, link_vars, input_vars, request,
                   response>>

\* run lines 321-326: a disconnected client connects again once 15 s have
\* passed since the last attempt
WifiRetry ==
    /\ w_pc = "retry"
    /\ \/ ~w_mqtt_connected /\ w_pc' = "retry_connect"
       \/ w_pc' = "periodic"
    /\ UNCHANGED <<host_vars, lab_vars, w_mqtt_connected, relay_states,
                   output_values, w_inbox, request, response, w_pub>>

\* run lines 328-336: when the publish interval has passed, publish_status
\* (lines 225-245); a failed publish clears mqtt_connected
WifiPeriodic ==
    /\ w_pc = "periodic"
    /\ w_pc' = "http"
    /\ \/ UNCHANGED <<w_mqtt_connected, w_pub>>
       \/ /\ w_mqtt_connected
          /\ IF broker_up
             THEN /\ w_pub' = wifi_status(relay_states, output_values)
                  /\ UNCHANGED w_mqtt_connected
             ELSE /\ w_mqtt_connected' = FALSE
                  /\ UNCHANGED w_pub
    /\ UNCHANGED <<host_vars, lab_vars, relay_states, output_values,
                   w_inbox, request, response>>

\* run lines 338-343 and handle_http_request: the request waiting on the
\* socket, if any, is handled and answered
WifiHttp ==
    /\ w_pc = "http"
    /\ w_pc' = "check"
    /\ IF request = NoRequest
       THEN UNCHANGED <<relay_states, output_values, request, response,
                        board_vars>>
       ELSE LET o == IF request.route \in {"relay_toggle", "output_toggle"}
                     THEN http_toggle(request, relay_states, output_values)
                     ELSE http_call(request) IN
            /\ board_relays' = board_relay(board_relays, o.call)
            /\ relay_states' = wifi_relays(relay_states, o.call)
            /\ board_outputs' = board_output(board_outputs, o.call)
            /\ output_values' = wifi_outputs(output_values, o.call)
            /\ response' = http_response(o)
            /\ request' = NoRequest
    /\ UNCHANGED <<host_vars, parse_vars, link_vars, input_vars,
                   w_mqtt_connected, w_inbox, w_pub>>

\* the messages publishers send to the firmware's topics
WifiMsgs ==
    {[base |-> "relay", last |-> <<"1">>, payload |-> <<"o", "n">>],
     [base |-> "relay", last |-> <<"1">>, payload |-> <<"0xFF">>],
     [base |-> "relay", last |-> <<"4">>, payload |-> <<"o", "n">>],
     [base |-> "relay", last |-> <<"x">>, payload |-> <<"o", "n">>],
     [base |-> "output", last |-> <<"1">>, payload |-> <<"7", "5">>],
     [base |-> "output", last |-> <<"1">>, payload |-> <<"a", "b", "c">>],
     [base |-> "command", last |-> <<>>, payload |-> <<"r", "e", "s", "e", "t">>]}

\* the broker passes a message on to the connected firmware
WifiDeliver(m) ==
    /\ broker_up
    /\ w_mqtt_connected
    /\ w_inbox = <<>>
    /\ w_inbox' = <<m>>
    /\ UNCHANGED <<host_vars, lab_vars, w_pc, w_mqtt_connected,
                   relay_states, output_values, request, response, w_pub>>

\* the write requests HTTP clients send
WifiRequests ==
    {[route |-> "relay", last |-> <<"1">>, body |-> Body(TRUE, TRUE, 100)],
     [route |-> "relay", last |-> <<"4">>, body |-> Body(TRUE, TRUE, 100)],
     [route |-> "relay", last |-> <<"x">>, body |-> Body(TRUE, TRUE, 100)],
     [route |-> "relay", last |-> <<"1">>, body |-> Body(FALSE, TRUE, 100)],
     [route |-> "output", last |-> <<"1">>, body |-> Body(TRUE, TRUE, 150)],
     [route |-> "relay_toggle", last |-> <<"1">>, body |-> Body(TRUE, TRUE, 100)],
     [route |-> "output_toggle", last |-> <<"1">>, body |-> Body(TRUE, TRUE, 100)],
     [route |-> "output_toggle", last |-> <<"4">>, body |-> Body(TRUE, TRUE, 100)],
     [route |-> "reset", last |-> <<>>, body |-> Body(TRUE, TRUE, 100)]}

\* a client connects and sends its request; the listening socket keeps it
\* until handle_http_request accepts it
HttpClient(r) ==
    /\ request = NoRequest
    /\ request' = r
    /\ response' = NoResponse
    /\ UNCHANGED <<host_vars, lab_vars, w_pc, w_mqtt_connected,
                   relay_states, output_values, w_inbox, w_pub>>

NextWifi ==
    \/ WifiBoot
    \/ WifiConnect
    \/ WifiCheckMsg
    \/ WifiRetry
    \/ WifiPeriodic
    \/ WifiHttp
    \/ \E m \in WifiMsgs : WifiDeliver(m)
    \/ \E r \in WifiRequests : HttpClient(r)
    \/ BrokerChange

\* check_input_changes lines 247-260 that publishes every level it samples
check_input_changes_all(ps, last, up) ==
    SelectSeq([i \in 1..NUM_INPUTS |->
                  [n |-> i, level |-> IF ps[i] THEN "HIGH" ELSE "LOW"]],
              LAMBDA e : up)

\* check_input_changes lines 247-260: the messages one pass publishes on
\* <prefix>/input/<n>, the pins reading ps, last_inputs being last; up says
\* that mqtt_connected is set and the publish does not raise
check_input_changes(ps, last, up) ==
    SelectSeq([i \in 1..NUM_INPUTS |->
                  [n |-> i, level |-> IF ps[i] THEN "HIGH" ELSE "LOW"]],
              LAMBDA e : ps[e.n] # last[e.n] /\ up)

\* run lines 333-336: the input poll interval has passed and
\* check_input_changes runs, after the periodic publish and before the
\* HTTP socket is looked at; what a publish raises is swallowed
WifiCheckInputs ==
    /\ w_pc = "http"
    /\ w_in_pub' = check_input_changes(pins, last_inputs,
                                       w_mqtt_connected /\ broker_up)
    /\ last_inputs' = pins
    /\ UNCHANGED <<host_vars, parse_vars, link_vars, w_pc, w_mqtt_connected,
                   relay_states, output_values, w_inbox, request, response,
                   w_pub, pins, board_vars>>

\* the inputs that are wired to something
WiredInputs == {1, 2}

\* the level at input i changes
PinChange(i) ==
    /\ pins' = [pins EXCEPT ![i] = ~@]
    /\ UNCHANGED <<host_vars, parse_vars, link_vars, w_pc, w_mqtt_connected,
                   relay_states, output_values, w_inbox, request, response,
                   w_pub, last_inputs, w_in_pub, board_vars>>

\* the firmware's main loop with inputs that change and no clients
NextInputs ==
    \/ WifiBoot
    \/ WifiConnect
    \/ WifiCheckMsg
    \/ WifiRetry
    \/ WifiPeriodic
    \/ WifiCheckInputs
    \/ WifiHttp
    \/ \E i \in WiredInputs : PinChange(i)
    \/ BrokerChange

\* the firmware runs on a board that is powered
InitBoard == Init /\ board_mode = "ok"

SpecWifi == InitBoard /\ [][NextWifi]_vars

SpecInputs == InitBoard /\ [][NextInputs]_vars

\* ------------------------------------------------------ the MQTT bridge
\* the messages publishers send to the service's topics
BridgeMsgs ==
    {[base |-> "output", last |-> <<"1">>, payload |-> <<"7", "5">>],
     [base |-> "output", last |-> <<"1">>, payload |-> <<"a", "b", "c">>],
     [base |-> "command", last |-> <<>>, payload |-> <<"r", "e", "s", "e", "t">>],
     [base |-> "command", last |-> <<>>, payload |-> s_STATUS]}

\* on_mqtt_message lines 356-399 up to the board call: message m is decoded
\* and parsed; it is dropped when the board is not connected, when an
\* exception is caught or when no branch matches
MqttDeliver(m) ==
    /\ pc["mqtt"] = "idle"
    /\ running
    /\ mqtt_connected
    /\ LET o == on_mqtt_message(m) IN
       IF o.caught # "" \/ ~board_connected \/ o.call = NoCmd
       THEN UNCHANGED <<pc, cmd, msg>>
       ELSE /\ pc' = [pc EXCEPT !["mqtt"] = "call"]
            /\ cmd' = [cmd EXCEPT !["mqtt"] = o.call]
            /\ msg' = m
    /\ UNCHANGED <<svc_vars, obj, lines, resp, wire_in, wire_out, dev_vars,
                   reply, other_vars>>

\* the broker comes within reach and stays
BrokerComesUp == ~broker_up /\ BrokerChange

\* the service with its board plugged in and a broker that stays
NextBridge ==
    \/ Start
    \/ BrokerComesUp
    \/ WorkerTop
    \/ WorkerReturn
    \/ \E t \in Threads : Call(t)
    \/ \E t \in Threads : SendWrite(t)
    \/ \E t \in Threads : SendRead(t)
    \/ DeviceReply
    \/ \E m \in BridgeMsgs : MqttDeliver(m)
    \/ HandlerReturn("mqtt")
    \/ MqttOnConnect

SpecBridge == InitBoard /\ [][NextBridge]_vars

\* what the paho network thread does with a message it has taken
MqttStep ==
    \/ Call("mqtt")
    \/ SendWrite("mqtt")
    \/ SendRead("mqtt")
    \/ HandlerReturn("mqtt")

\* the threads keep being scheduled and the device keeps reading its port;
\* the worker gets its turn at the port however often the callback writes
LiveBridge ==
    /\ SpecBridge
    /\ SF_vars(WorkerStep)
    /\ WF_vars(MqttStep)
    /\ WF_vars(DeviceReply)
    /\ WF_vars(Start)
    /\ WF_vars(MqttOnConnect)

\* ------------------------------------------- a library client and the device
\* pin readings the device may find
HwReadings ==
    {Unwired,
     [inputs |-> [i \in 1..NUM_INPUTS |-> i = 1],
      adcs |-> [i \in 1..NUM_ADCS |-> IF i = 1 THEN 1500 ELSE 0],
      pressed |-> TRUE]}

\* the command lines typed at a terminal on the port, those that
\* Automation2040W.relay formats among them
DeviceLines ==
    {relay_set_line(n, s) : n \in {1, NUM_RELAYS}, s \in BOOLEAN}
    \cup {relay_set_line(n, TRUE) : n \in {0 - 1, 0, NUM_RELAYS + 1}}
    \cup {relay_query_line(n) : n \in {0, 1, NUM_RELAYS, NUM_RELAYS + 1}}
    \cup {<<s_RELAY>>, <<s_RELAY, <<"x">>, s_ON>>, <<s_RELAY, <<"1">>>>,
          <<s_OUTPUT, <<"1">>, <<"5", "0">>>>,
          <<s_OUTPUT, <<"1">>, <<"5", "3">>>>,
          <<s_OUTPUT, <<"0">>, <<"5", "0">>>>,
          <<s_OUTPUT, <<"4">>, <<"5", "0">>>>,
          <<s_OUTPUT, <<"1">>, <<"a", "b", "c">>>>,
          <<s_OUTPUT, <<"1", "?">>>>, <<s_OUTPUT, <<"4", "?">>>>,
          <<s_INPUT, <<"1", "?">>>>, <<s_INPUT, <<"0", "?">>>>,
          <<s_INPUT, <<"5">>>>,
          <<s_ADC, <<"1", "?">>>>, <<s_ADC, <<"4", "?">>>>,
          <<s_ADC, <<"-", "1", "?">>>>,
          <<s_LED, s_A, <<"5", "0">>>>, <<s_BUTTON, <<"A", "?">>>>,
          <<s_STATUS>>, <<(<<"r", "e", "s", "e", "t">>)>>, <<s_VERSION>>,
          <<s_PING>>, <<s_HELP>>, <<(<<"F", "O", "O">>)>>,
          <<>>, <<(<<"#">>), <<"h", "i">>>>}

\* AutomationController.run lines 348-360 with parse_command: the device
\* reads one line from the terminal and answers it
DeviceLine(line, hw) ==
    /\ \E d \in {parse_line(dev_relays, dev_outputs, hw, line)} :
        /\ dev_relays' = d.relays
        /\ dev_outputs' = d.outputs
        /\ lib_last' = [NoSend EXCEPT !.line = line, !.out = d.out]
    /\ lib_prev' = [NoSend EXCEPT !.line = lib_last.line]
    /\ UNCHANGED <<svc_vars, board_mode, broker_up, io_vars, wire_in, wire_out,
                   pc, obj, cmd, lines, resp, parse_vars, wifi_vars, rx>>

\* the readings that matter to a line: those of the pins it reads
Readings(line) ==
    IF line # <<>> /\ upper(line[1]) \in {s_INPUT, s_ADC, s_BUTTON, s_STATUS}
    THEN HwReadings ELSE {Unwired}

NextDevice ==
    \E line \in DeviceLines : \E hw \in Readings(line) : DeviceLine(line, hw)

SpecDevice == InitBoard /\ [][NextDevice]_vars

\* the command lines the library client sends
LinkLines ==
    {relay_set_line(n, st) : n \in {1, NUM_RELAYS}, st \in BOOLEAN}
    \cup {relay_query_line(n) : n \in {1, NUM_RELAYS}}
    \cup {relay_set_line(NUM_RELAYS + 1, TRUE), <<s_PING>>, <<s_HELP>>}

\* Automation2040W._send_command(line) of a client that is alone on the
\* port, lines 183-215, with AutomationController.run lines 348-360 in
\* between: the device parses the line unless it hangs, the read loop takes
\* what the buffer holds
LinkSend(line, hw) ==
    /\ \E d \in {IF board_mode = "ok"
                  THEN parse_line(dev_relays, dev_outputs, hw, line)
                  ELSE [out |-> <<>>, relays |-> dev_relays,
                        outputs |-> dev_outputs]} :
       \E r \in {read_loop(rx \o d.out, <<>>)} :
           /\ dev_relays' = d.relays
           /\ dev_outputs' = d.outputs
           /\ rx' = r.rest
           /\ lib_last' = [line |-> line, out |-> d.out,
                           resp |-> send_result(r.lines),
                           fault |-> IF board_mode = "ok" THEN "" ELSE "hung"]
    /\ lib_prev' = [NoSend EXCEPT !.line = lib_last.line,
                                  !.fault = lib_last.fault]
    /\ UNCHANGED <<svc_vars, board_mode, broker_up, io_vars, wire_in, wire_out,
                   pc, obj, cmd, lines, resp, parse_vars, wifi_vars>>

\* the firmware restarts: every relay and output is off again and run
\* prints its banner, lines 338-342
DeviceRestart ==
    /\ board_mode = "ok"
    /\ Len(rx) + Len(banner) <= MaxRx
    /\ rx' = rx \o banner
    /\ dev_relays' = [i \in 1..NUM_RELAYS |-> FALSE]
    /\ dev_outputs' = [i \in 1..NUM_OUTPUTS |-> 0]
    /\ lib_last' = [lib_last EXCEPT !.fault = IF @ = "" THEN "restarted" ELSE @]
    /\ UNCHANGED <<svc_vars, board_mode, broker_up, io_vars, wire_in, wire_out,
                   pc, obj, cmd, lines, resp, parse_vars, wifi_vars, lib_prev>>

\* the command lines a client sends to a device that is slow at times
LateLines ==
    {relay_set_line(1, s) : s \in BOOLEAN} \cup {relay_query_line(1), <<s_PING>>}

\* _send_command(line), lines 183-215, when the device prints its reply
\* only after the read timeout: the read loop finds what the buffer held
\* before, and the reply stays in the buffer
LinkSendLate(line, hw) ==
    /\ board_mode = "ok"
    /\ \E d \in {parse_line(dev_relays, dev_outputs, hw, line)} :
       \E r \in {read_loop(rx, <<>>)} :
           /\ dev_relays' = d.relays
           /\ dev_outputs' = d.outputs
           /\ rx' = r.rest \o d.out
           /\ lib_last' = [line |-> line, out |-> d.out,
                           resp |-> send_result(r.lines), fault |-> "late"]
    /\ lib_prev' = [NoSend EXCEPT !.line = lib_last.line,
                                  !.fault = lib_last.fault]
    /\ UNCHANGED <<svc_vars, board_mode, broker_up, io_vars, wire_in, wire_out,
                   pc, obj, cmd, lines, resp, parse_vars, wifi_vars>>

NextLate ==
    \/ \E line \in LateLines : LinkSend(line, Unwired)
    \/ \E line \in LateLines : LinkSendLate(line, Unwired)

SpecLate == InitBoard /\ [][NextLate]_vars

NextLink ==
    \/ \E line \in LinkLines, hw \in HwReadings : LinkSend(line, hw)
    \/ DeviceRestart
    \/ \E m \in {"mute", "ok"} : BoardChange(m)

SpecLink == InitBoard /\ [][NextLink]_vars

\* POST /api/output/<n> with a JSON value: in range, above the range, and on
\* a channel the board does not have
HttpOutCmds ==
    {output_cmd(1, 50), output_cmd(1, 150), output_cmd(NUM_OUTPUTS + 1, 50)}

\* the service with HTTP clients that set outputs, the board staying as it is
NextHttpOut ==
    \/ Core
    \/ \E c \in HttpOutCmds : HttpRequest(c)
    \/ HandlerReturn("http")
    \/ HttpReplied

SpecHttpOut == Init /\ [][NextHttpOut]_vars

\* ================================================================ claims

\* a command of thread t is in flight: written and not yet answered or
\* timed out
InFlight(t) == pc[t] = "read"

\* C1: at most one command is in flight on the serial transport at any time
C1_OneInFlight == Cardinality({t \in Threads : InFlight(t)}) <= 1

\* C2: each caller of send receives the response to its own command, never
\* another caller's response
C2_OwnResponse ==
    \A t \in Threads :
        pc[t] = "ret" /\ resp[t].type = "ok" => resp[t].from = t

\* C3: a send on a transport that is absent or closed is rejected with an
\* error and writes nothing to the transport
C3_FailFast ==
    [][\A t \in Threads :
          (pc[t] = "send" /\ serial[obj[t]] = "None" /\ pc'[t] # pc[t])
          => /\ wire_in' = wire_in
             /\ pc'[t] = "ret"
             /\ resp'[t].type = "CommandError"]_vars

C3_Witness ==
    \E t \in Handlers :
        /\ pc[t] = "ret"
        /\ resp[t].msg = "Not connected to board"
        /\ wire_in = <<>>

\* C4: every failure of connect() is reported to the caller as a
\* ConnectionError, never as another error type
C4_ConnectionErrorOnly ==
    (pc[Worker] = "ret" /\ cmd[Worker] \in {PING, VERSION_CMD})
    => connect_raises(cmd[Worker], resp[Worker]) \in {"none", "ConnectionError"}

\* the read timeout of thread t's command elapses in this step without any
\* response line
TimedOut(t) ==
    /\ pc[t] = "read"
    /\ pc'[t] = "ret"
    /\ lines[t] = <<>>
    /\ serial[obj[t]] = "open"
    /\ wire_out' = wire_out

\* C5 as claimed: a send whose read timeout elapsed without any response
\* line raised a TimeoutError and left the link not connected
C5_TimeoutFaults ==
    \A t \in Threads :
        (pc[t] = "ret" /\ resp[t].msg = "No response from board")
        => resp[t].type = "TimeoutError" /\ serial[obj[t]] # "open"

\* C5 as amended: when the read timeout elapses without any response line,
\* send raises a CommandError and leaves every transport handle as it was
C5_TimeoutRaisesCommandError ==
    [][\A t \in Threads :
          TimedOut(t) => resp'[t].type = "CommandError" /\ serial' = serial]_vars

C5_Witness ==
    \E t \in Threads :
        /\ pc[t] = "ret"
        /\ resp[t] = Exc("CommandError", "No response from board")
        /\ serial[obj[t]] = "open"

\* C6: disconnect is idempotent: one disconnect releases the transport, a
\* further disconnect (also without a prior connect) raises no error and
\* leaves the same disconnected state, in the library and in the service
C6_DisconnectIdempotent ==
    /\ \A s \in {"None"} \cup {serial[o] : o \in 1..nobj} :
          LET d1 == disconnect(s)
              d2 == disconnect(d1.serial)
          IN  /\ ~d1.raised
              /\ ~d2.raised
              /\ d1.serial = "None"
              /\ d2.serial = d1.serial
    /\ LET s1 == disconnect_board(board, serial)
           s2 == disconnect_board(s1.board, s1.serial)
       IN  /\ s2 = s1
           /\ s1.board = 0
           /\ ~s1.board_connected
           /\ board # 0 => s1.serial[board] = "None"

\* stop() has disconnected a board that a failed poll had disconnected and
\* the worker had connected again
C6_Witness ==
    /\ ~running
    /\ error_count > 0
    /\ nobj = MaxObjs
    /\ board = 0
    /\ \A o \in 1..nobj : serial[o] = "None"

\* C7 as claimed: the link is kept on a first failed poll
C7_KeptOnFirstFailure ==
    [][(error_count = 0 /\ error_count' = 1) => board_connected']_vars

\* C7 as amended: every failed STATUS poll tears the link down at once, and
\* the poll loop then connects again
C7_DisconnectOnEveryFailure ==
    [][error_count' # error_count
       => /\ board' = 0
          /\ ~board_connected'
          /\ board # 0 => serial'[board] = "None"]_vars

C7_Witness == error_count > 0 /\ board_connected /\ board = nobj /\ nobj > 1

\* C8: whenever the service is running, the link is down and the board
\* answers the handshake, the poll loop eventually re-establishes the
\* connection
C8_ReconnectLive ==
    [](running /\ ~board_connected /\ board_mode = "ok" /\ nobj < MaxObjs
       => <>(board_connected \/ ~running \/ board_mode # "ok"))

\* the poll of the worker fails in this step
PollFails ==
    /\ pc[Worker] = "ret"
    /\ cmd[Worker] = STATUS
    /\ ~(resp[Worker].type = "ok" /\ resp[Worker].tag = "{")
    /\ pc'[Worker] # "ret"

\* C9: the cumulative error count never decreases and every failed STATUS
\* poll increases it
C9_ErrorCountMonotonic ==
    [][/\ error_count' >= error_count
       /\ PollFails => error_count' > error_count]_vars

\* two polls have failed, each on a connection of its own
C9_Witness == error_count > 1 /\ ~board_connected /\ pc[Worker] = "w_top"

\* C10: the cached snapshot changes only in the poll loop, right after a
\* successful STATUS poll
C10_SingleWriter ==
    [][last_status' # last_status
       => /\ pc[Worker] = "ret"
          /\ cmd[Worker] = STATUS
          /\ resp[Worker].type = "ok"
          /\ resp[Worker].tag = "{"
          /\ last_status' = resp[Worker].data
          /\ pc'[Worker] = "w_top"]_vars

\* the MQTT callback holds a status that differs from the cached one
C10_Witness ==
    /\ pc["mqtt"] = "ret"
    /\ cmd["mqtt"] = STATUS
    /\ IsJson(resp["mqtt"])
    /\ last_status # EmptyStatus
    /\ resp["mqtt"].data # last_status

\* C11 as claimed: a read of the cached status while the link is down
\* returns the last snapshot, not an error
C11_StaleReadReturnsSnapshot ==
    [][(/\ pc["http"] = "idle"
        /\ pc'["http"] \in {"st_read", "st_replied"}
        /\ ~board_connected
        /\ last_status # EmptyStatus)
       => (pc'["http"] = "st_replied" => reply' = StatusReply(last_status))]_vars

\* C11 as amended: taking the link down leaves the cached snapshot as it
\* is, but GET /api/status answers 503 with an error body, without the
\* snapshot, whenever it finds the link down; a read that found the link up
\* returns the snapshot as cached, without an age
C11_DownReadIsError ==
    [][/\ (board_connected /\ ~board_connected') => last_status' = last_status
       /\ (/\ pc["http"] = "idle"
           /\ pc'["http"] \in {"st_read", "st_replied"}
           /\ ~board_connected)
          => /\ pc'["http"] = "st_replied"
             /\ reply' = ErrorReply(503, "Board not connected")
       /\ (pc["http"] = "st_read" /\ pc'["http"] # "st_read")
          => /\ pc'["http"] = "st_replied"
             /\ reply' = StatusReply(last_status)
             /\ last_status' = last_status]_vars

\* a status read is answered 503 although a snapshot is cached
C11_Witness ==
    /\ pc["http"] = "st_replied"
    /\ reply = ErrorReply(503, "Board not connected")
    /\ last_status # EmptyStatus
    /\ ~board_connected

\* C12: an HTTP write request that finds the board disconnected is answered
\* 503 with the error "Board not connected", writes nothing to the transport
\* and leaves the cached status unchanged, wherever the poll loop stands
C12_Rejected503 ==
    [][(/\ pc["http"] = "idle"
        /\ pc'["http"] \in {"call", "replied"}
        /\ ~board_connected)
       => /\ pc'["http"] = "replied"
          /\ reply' = ErrorReply(503, "Board not connected")
          /\ wire_in' = wire_in
          /\ last_status' = last_status
          /\ cmd'["http"] = NoCmd]_vars

\* a write request was answered 503 while the poll loop is connecting again
C12_Witness ==
    /\ pc["http"] = "replied"
    /\ reply = ErrorReply(503, "Board not connected")
    /\ error_count > 0
    /\ pc[Worker] \in {"send", "read"}
    /\ last_status # EmptyStatus

\* command c stays within the board's channels and the value domain
ValidWrite(c) ==
    /\ c.verb = "RELAY" => c.n \in 1..NUM_RELAYS
    /\ c.verb = "OUTPUT" => c.n \in 1..NUM_OUTPUTS /\ c.val \in 0..100

\* C13: no command of an HTTP write with a channel index outside the
\* board's channels or a value outside 0..100 is ever written to the
\* transport
C13_InvalidNeverWritten ==
    \A i \in DOMAIN wire_in :
        wire_in[i].from = "http" => ValidWrite(wire_in[i].c)

\* the payloads of TestPayloads that read ON, 1 or TRUE once trimmed and
\* case-folded
C15_TruePayloads ==
    {<<"o", "n">>, <<" ", "O", "N", " ">>, <<"O", "n", "\n">>, <<"1">>,
     <<"t", "r", "u", "e">>, <<"T", "R", "U", "E">>}

\* C15: for a message on <prefix>/relay/<n> both programs set relay n to
\* true exactly when the trimmed, case-folded payload is ON, 1 or TRUE, and
\* to false for every other payload text
C15_RelayPayload ==
    (test_msg.base = "relay" /\ ~Undecodable(test_msg.payload)
        /\ int_parses(test_msg.last))
    => /\ host_out.done
          => host_out.call = relay_cmd(py_int(test_msg.last),
                                       test_msg.payload \in C15_TruePayloads)
       /\ (wifi_out.done /\ py_int(test_msg.last) \in 1..NUM_RELAYS)
          => wifi_out.call = relay_cmd(py_int(test_msg.last),
                                       test_msg.payload \in C15_TruePayloads)

\* both programs have switched relay 1 on for the payload " ON "
C15_Witness ==
    /\ test_msg = [base |-> "relay", last |-> <<"1">>,
                   payload |-> <<" ", "O", "N", " ">>]
    /\ host_out.done
    /\ wifi_out.done
    /\ host_out.call = relay_cmd(1, TRUE)
    /\ wifi_out.call = relay_cmd(1, TRUE)

\* the payloads of TestPayloads the claim forwards, each with its value in
\* per cent: 100 for ON/TRUE, 0 for OFF/FALSE, else the integer clamped
\* into [0, 100]
C16_Expected ==
    {<<(<<"o", "n">>), 100>>, <<(<<" ", "O", "N", " ">>), 100>>,
     <<(<<"O", "n", "\n">>), 100>>, <<(<<"t", "r", "u", "e">>), 100>>,
     <<(<<"T", "R", "U", "E">>), 100>>, <<(<<"o", "f", "f">>), 0>>,
     <<(<<"f", "a", "l", "s", "e">>), 0>>, <<(<<"0">>), 0>>, <<(<<"1">>), 1>>,
     <<(<<"7", "5">>), 75>>, <<(<<"1", "0", "0">>), 100>>,
     <<(<<"1", "5", "0">>), 100>>, <<(<<"-", "5">>), 0>>}

\* C16: the value a message on <prefix>/output/<n> forwards to the board is
\* 100 for ON/TRUE, 0 for OFF/FALSE, else the integer per cent clamped into
\* [0, 100]; nothing outside 0..100 is forwarded
C16_OutputValue ==
    test_msg.base = "output"
    => /\ host_out.call.verb = "OUTPUT"
          => <<test_msg.payload, host_out.call.val>> \in C16_Expected
       /\ wifi_out.call.verb = "OUTPUT"
          => \E e \in C16_Expected :
                e[1] = test_msg.payload /\ wifi_out.call.val = 10 * e[2]


\* C14: every answer to a write request is either a 2xx response with
\* status "ok", given exactly when the command succeeded, or a non-2xx
\* response whose body carries an "error" member.
C14_Succeeds(r) ==
    \/ r.route = "reset"
    \/ /\ int_parses(r.last)
       /\ r.body.valid
       /\ py_int(r.last) \in 1..(IF r.route = "relay" THEN NUM_RELAYS
                                                        ELSE NUM_OUTPUTS)

C14_ErrorsReported ==
    [][(request # NoRequest /\ request' = NoRequest) =>
         IF C14_Succeeds(request)
         THEN response'.status = "ok" /\ response'.code \in 200..299
         ELSE response'.error # "" /\ response'.code \notin 200..299]_vars

\* C17: a message with a non-numeric or out-of-range channel, an
\* unparsable value or an undecodable payload is dropped: the outputs and
\* the MQTT session are as they were before it.
C17_Malformed(m) ==
    \/ Undecodable(m.payload)
    \/ /\ m.base \in {"relay", "output"}
       /\ \/ ~int_parses(m.last)
          \/ py_int(m.last) \notin 1..(IF m.base = "relay" THEN NUM_RELAYS
                                                             ELSE NUM_OUTPUTS)
    \/ /\ m.base = "output"
       /\ upper(strip(m.payload)) \notin {s_ON, s_OFF, s_TRUE, s_FALSE}
       /\ ~float_parses(strip(m.payload))

C17_MalformedDropped ==
    [][(w_inbox # <<>> /\ w_inbox' = <<>> /\ C17_Malformed(Head(w_inbox))) =>
         /\ relay_states' = relay_states
         /\ output_values' = output_values
         /\ w_mqtt_connected' = w_mqtt_connected]_vars

\* C20: while the broker cannot be reached, a waiting HTTP request never
\* finds the main loop held inside an MQTT connect.
C20_HttpNotStalled ==
    ~(/\ w_pc \in {"boot_connect", "retry_connect"}
      /\ ~broker_up
      /\ request # NoRequest)

\* C18 as stated: when the handler of a relay, output or reset command that
\* succeeded returns while MQTT is connected, a status has just been
\* published: the published status is the board's state or the cache.
C18_PublishAfterCommand ==
    [][(/\ pc["mqtt"] = "ret"
        /\ pc'["mqtt"] = "idle"
        /\ cmd["mqtt"].verb \in {"RELAY", "OUTPUT", "RESET"}
        /\ resp["mqtt"].type = "ok"
        /\ mqtt_connected) =>
         pub' \in {cmd_status(dev_relays, dev_outputs, Unwired),
                   last_status}]_vars

\* C18: the published status changes only when the worker's STATUS poll
\* returns or when the handler of an MQTT STATUS command returns; a relay,
\* output or reset command publishes nothing of its own.
C18_PublishOnlyOnPollOrStatus ==
    [][pub' # pub =>
         \E t \in {Worker, "mqtt"} :
             /\ pc[t] = "ret"
             /\ cmd[t] = STATUS
             /\ IsJson(resp[t])
             /\ pc'[t] # "ret"]_vars

\* a relay command has been carried out and its handler has returned, and
\* the published status still shows the relay off
C18_Witness ==
    /\ pc["mqtt"] = "idle"
    /\ mqtt_connected
    /\ dev_relays[1]
    /\ pub # EmptyStatus
    /\ ~pub.relays[1]

\* the message of C19 and the command it stands for
C19_Msg == [base |-> "output", last |-> <<"1">>, payload |-> <<"7", "5">>]
C19_Cmd == [verb |-> "OUTPUT", n |-> 1, arg |-> "", val |-> 75]

\* the command the callback writes for C19_Msg is OUTPUT 1 75 and nothing
\* else
C19_ExactCommand ==
    [][(msg = C19_Msg /\ pc["mqtt"] = "send" /\ pc'["mqtt"] = "read") =>
         wire_in' = <<[c |-> C19_Cmd, from |-> "mqtt"]>>]_vars

\* once the board runs output 1 at 75 a status showing 75 is published,
\* unless output 1 is written again or the worker has to reconnect with
\* the Automation2040W objects of the model used up
C19_Published ==
    (dev_outputs[1] = 75) ~>
        \/ pub # EmptyStatus /\ pub.outputs[1] = 75
        \/ dev_outputs[1] # 75
        \/ nobj = MaxObjs /\ ~board_connected /\ pc[Worker] = "w_top"

\* C19: with board and broker connected a message on <prefix>/output/1
\* with payload 75 makes the service write exactly OUTPUT 1 75, and a
\* status with outputs[0] = 75 is published afterwards unless output 1 is
\* written again.
C19_OutputThenStatus == C19_ExactCommand /\ C19_Published

\* the message was written as OUTPUT 1 75 and the status published since
\* shows output 1 at 75
C19_Witness ==
    /\ dev_outputs[1] = 75
    /\ pub # EmptyStatus
    /\ pub.outputs[1] = 75
    /\ pc["mqtt"] = "idle"

\* C21: whenever the service runs with MQTT disconnected and the broker
\* within reach, a connect attempt is made and MQTT gets connected,
\* whatever the serial link does (the worker stuck for want of another
\* Automation2040W object of the model apart).
C21_MqttReconnects ==
    (running /\ ~mqtt_connected /\ broker_up) ~>
        \/ mqtt_connected
        \/ nobj = MaxObjs /\ ~board_connected /\ pc[Worker] = "w_top"

\* C22: while the service is running the board worker has not ended.
C22_WorkerSurvives == running => pc[Worker] # "dead"

\* ------------------------------------------------ the device at a terminal
\* the reply OK and nothing else
BareOk == <<Printed("OK", <<>>)>>

AllOff ==
    /\ \A i \in 1..NUM_RELAYS : ~dev_relays[i]
    /\ \A i \in 1..NUM_OUTPUTS : dev_outputs[i] = 0

IsReset(line) == Len(line) = 1 /\ upper(line[1]) = s_RESET

\* C23: a RESET line is answered by OK and leaves every relay off and every
\* output at 0, whatever the state before it; so is a second RESET right
\* after the first.
C23_ResetIdempotent ==
    IsReset(lib_last.line) => lib_last.out = BareOk /\ AllOff

C23_Witness == IsReset(lib_prev.line) /\ IsReset(lib_last.line) /\ AllOff

\* C25: a RELAY, OUTPUT, INPUT or ADC line whose index is 0, negative or
\* above the channel count is answered by one ERR line that names the range,
\* and the relays and duties stay as they were.
C25_BadIndex ==
    {relay_set_line(n, TRUE) : n \in {0 - 1, 0, NUM_RELAYS + 1}}
    \cup {relay_query_line(n) : n \in {0, NUM_RELAYS + 1}}
    \cup {<<s_OUTPUT, <<"0">>, <<"5", "0">>>>,
          <<s_OUTPUT, <<"4">>, <<"5", "0">>>>, <<s_OUTPUT, <<"4", "?">>>>,
          <<s_INPUT, <<"0", "?">>>>, <<s_INPUT, <<"5">>>>,
          <<s_ADC, <<"4", "?">>>>, <<s_ADC, <<"-", "1", "?">>>>}

C25_RangeError(out) ==
    /\ Len(out) = 1
    /\ out[1].tag = "ERR"
    /\ Len(out[1].words) = 3
    /\ out[1].words[2] = <<"index out of range">>

C25_RangeChecked ==
    [][lib_last'.line \in C25_BadIndex =>
           /\ C25_RangeError(lib_last'.out)
           /\ dev_relays' = dev_relays
           /\ dev_outputs' = dev_outputs]_vars

C25_Witness ==
    /\ lib_last.line = <<s_OUTPUT, <<"4">>, <<"5", "0">>>>
    /\ C25_RangeError(lib_last.out)
    /\ dev_relays[1]
    /\ dev_outputs[1] # 0

\* C26: every line that is neither empty nor a comment is answered by
\* exactly one response, whose first line begins with OK, ERR or {; a line
\* of a response that is not its first begins with none of them; an empty
\* line and a comment are answered by nothing.
Terminators == {"OK", "ERR", "{"}

C26_OneResponse ==
    IF lib_last.line = <<>> \/ IsComment(lib_last.line)
    THEN lib_last.out = <<>>
    ELSE /\ lib_last.out # <<>>
         /\ lib_last.out[1].tag \in Terminators
         /\ \A i \in 2..Len(lib_last.out) : lib_last.out[i].tag = ""

C26_Witness ==
    /\ lib_last.line = <<s_RELAY, <<"x">>, s_ON>>
    /\ Len(lib_last.out) = 1
    /\ lib_last.out[1].tag = "ERR"

C28_ListingConsumed ==
    (lib_last.line = <<s_HELP>> /\ lib_last.fault = "")
        => /\ rx = <<>>
           /\ Len(lib_last.resp.text) = Len(cmd_help)

\* C29: a command the device never answers, because it hangs, does not
\* return successfully, whatever lines without a terminator the read loop
\* found before its timeout.
C29_NoPartialSuccess ==
    lib_last.fault = "hung" => lib_last.resp.type # "ok"

\* ------------------------------------------------------- status snapshots
C27_Shape(d) ==
    /\ Len(d.relays) = NUM_RELAYS
    /\ Len(d.outputs) = NUM_OUTPUTS
    /\ Len(d.inputs) = NUM_INPUTS
    /\ Len(d.adcs) = NUM_ADCS

\* C27: every STATUS reply on the wire or returned to a thread, the status
\* last published and the cached status have one relays entry per relay, one
\* outputs entry per output, one inputs entry per input and one adcs entry
\* per ADC channel; before the first poll the cache is the empty dict and
\* nothing is published.
C27_FixedLengths ==
    /\ \A i \in DOMAIN wire_out :
           wire_out[i].tag = "{" => C27_Shape(wire_out[i].data)
    /\ \A t \in Threads : IsJson(resp[t]) => C27_Shape(resp[t].data)
    /\ last_status = EmptyStatus \/ C27_Shape(last_status)
    /\ pub = EmptyStatus \/ C27_Shape(pub)

C27_Witness ==
    /\ C27_Shape(pub)
    /\ C27_Shape(last_status)
    /\ pub.relays[1]
    /\ \E t \in Handlers : IsJson(resp[t])

\* --------------------------------------------------- a connect that fails
\* C30: when connect() fails in its handshake, after the port was opened,
\* the serial field of the object is not left open.
C30_FailedConnectCloses ==
    [][(/\ pc[Worker] = "ret"
        /\ pc'[Worker] # "ret"
        /\ cmd[Worker] \in {PING, VERSION_CMD}
        /\ connect_raises(cmd[Worker], resp[Worker]) # "none")
           => serial'[obj[Worker]] # "open"]_vars

\* ------------------------------------------- the MQTT command topic
\* the callback thread returns from the board call of its command c
MqttReturns(c) ==
    pc["mqtt"] = "ret" /\ pc'["mqtt"] = "idle" /\ cmd["mqtt"] = c

\* the lines on the port that the callback thread wrote
MqttLines(w) == Len(SelectSeq(w, LAMBDA l : l.from = "mqtt"))

\* C31 as stated: when the handler of an MQTT STATUS command has fetched the
\* status and MQTT is connected, what it publishes is the cached status,
\* the snapshot GET /api/status returns at that moment.
C31_PublishesCache ==
    [][(MqttReturns(STATUS) /\ IsJson(resp["mqtt"]) /\ mqtt_connected)
           => pub' = last_status']_vars

\* C31 as amended: the handler of an MQTT STATUS command publishes the
\* snapshot its own board.status() call has just returned and leaves the
\* cache as it was; when the board call failed or MQTT is not connected it
\* publishes nothing. The handler of an MQTT RESET writes the one line
\* RESET, and writes nothing before or after it.
C31_PublishesFresh ==
    [][/\ MqttReturns(STATUS) =>
             /\ last_status' = last_status
             /\ pub' = IF IsJson(resp["mqtt"]) /\ mqtt_connected
                       THEN resp["mqtt"].data
                       ELSE pub
       /\ cmd["mqtt"] = RESET =>
             IF pc["mqtt"] = "send" /\ pc'["mqtt"] = "read"
             THEN wire_in' = Append(wire_in, [c |-> RESET, from |-> "mqtt"])
             ELSE MqttLines(wire_in') <= MqttLines(wire_in)]_vars

C31_Witness ==
    /\ pc["mqtt"] = "idle"
    /\ C27_Shape(pub)
    /\ C27_Shape(last_status)
    /\ pub.outputs[1] = 75
    /\ last_status.outputs[1] = 0

\* ------------------------------------------------------ output round trip
C32_Vals == {50, 53}
C32_SetLine(n, v) == <<s_OUTPUT, str_int(n), str_int(v)>>
C32_QueryLine(n) == <<s_OUTPUT, str_int(n) \o <<"?">>>>

\* C32: an OUTPUT n v line with a valid n and a whole v in 0..100 is
\* answered by the bare OK, and an OUTPUT n? line right after it by OK v.
C32_OutputRoundTrip ==
    \A n \in 1..NUM_OUTPUTS, v \in C32_Vals :
        /\ lib_last.line = C32_SetLine(n, v) => lib_last.out = BareOk
        /\ (lib_prev.line = C32_SetLine(n, v)
                /\ lib_last.line = C32_QueryLine(n))
               => lib_last.out = <<Printed("OK", <<str_int(v)>>)>>

\* ------------------------------------------- the WiFi firmware's inputs
\* the messages of ms about input n
C33_About(ms, n) == SelectSeq(ms, LAMBDA e : e.n = n)

C33_Level(b) == IF b THEN "HIGH" ELSE "LOW"

\* C33 as stated: in a pass of check_input_changes that samples a change,
\* every input whose level differs from the one sampled before has its new
\* level published exactly once, and no other input has anything published.
C33_EveryChangePublished ==
    [][last_inputs' # last_inputs =>
           \A n \in 1..NUM_INPUTS :
               C33_About(w_in_pub', n) =
                   IF pins[n] # last_inputs[n]
                   THEN <<[n |-> n, level |-> C33_Level(pins[n])]>>
                   ELSE <<>>]_vars

\* C33 as amended: a pass of check_input_changes remembers every level it
\* samples; the new level of an input that changed is published exactly
\* once when mqtt_connected is set and the publish succeeds, and not at all
\* otherwise; nothing is published for an input whose level is unchanged.
C33_ChangePublishedWhenConnected ==
    [][(last_inputs' # last_inputs \/ w_in_pub' # w_in_pub) =>
           /\ last_inputs' = pins
           /\ \A n \in 1..NUM_INPUTS :
                  C33_About(w_in_pub', n) =
                      IF pins[n] # last_inputs[n]
                              /\ w_mqtt_connected /\ broker_up
                      THEN <<[n |-> n, level |-> C33_Level(pins[n])]>>
                      ELSE <<>>]_vars

C33_Witness ==
    /\ w_in_pub = <<[n |-> 1, level |-> "HIGH"], [n |-> 2, level |-> "LOW"]>>
    /\ last_inputs = pins

\* --------------------------------------------- commands and their replies
\* C34: when _send_command returns, what it returns was made of the lines
\* the device printed for that command, and no line of a reply is left
\* unread on the port.
C34_Aligned ==
    (lib_last.line # <<>> /\ lib_last.fault = "") =>
        /\ lib_last.resp = send_result(read_loop(lib_last.out, <<>>).lines)
        /\ rx = <<>>

\* ------------------------------------------- the board handle and its flag
\* C35: while board_connected is true the service holds a board object
\* whose serial handle exists, and a handler that has passed the
\* board_connected test finds a board object when it calls into it.
C35_ConnectedHasBoard ==
    /\ board_connected => (board # 0 /\ ~NotConnected(serial[board]))
    /\ \A t \in Handlers : pc[t] = "call" => board # 0

\* ------------------------------------------------------ MQTT network loops
\* C36: at most one MQTT client of the service has a running network loop.
C36_OneLoop == mqtt_loops <= 1

\* ------------------------------------------------------------- after stop
\* stop() has returned and the poll loop has left its while loop
Stopped == ~running /\ pc[Worker] = "done"

\* C37: once stop() has returned the board is disconnected: board_connected
\* is false and the service holds no board object with a serial handle.
C37_StaysDisconnected == Stopped => (~board_connected /\ board = 0)

\* ------------------------------------------------------- GET /api/status
\* C38: a 200 answer of GET /api/status carries a snapshot that a STATUS
\* poll captured: it is never the empty snapshot the service starts with.
C38_PolledSnapshot ==
    (pc["http"] = "st_replied" /\ reply.code = 200) => C27_Shape(reply.data)

====
